---- MODULE Spec2Model ----
(***************************************************************************)
(* Synchronisation engine of the SalesPro client: BackendService, the      *)
(* remote Users table it talks to, the localStorage keys it shares with    *)
(* the other open contexts (tabs) and the BroadcastChannel it signals them *)
(* on.  The repository holds two revisions of BackendService; rev says     *)
(* which one a behaviour runs.                                             *)
(***************************************************************************)
EXTENDS Integers, Sequences, FiniteSets, TLC

(* ---------------------------------------------------------------- bounds *)
MaxTasks == 2
MaxCalls == 2
MaxTwoCalls == 4
MaxBusCalls == 1
MaxTicks == 2
MaxForeign == 1
MaxContentCalls == 2
MaxWaits == 1
MaxRows == 2
MaxAssemblyCalls == 1
MaxFailureCalls == 1
MaxRosterCalls == 2
MaxRemoteRows == 2
MaxCallbacks == 2
MaxSubscribeCalls == 1
MaxMappingCalls == 1
MaxConfigCalls == 2
MaxConflictCalls == 2
MaxLinkCalls == 1
MaxPublishCalls == 2
MaxOrderCalls == 3
MaxRaceCalls == 3
MaxCacheCalls == 2

\* The clock: its reading at the start, its step, and the reading an earlier
\* session left in a record.
StartMs == 1000
TickMs == 1000
EarlierMs == 500

(* ------------------------------------------------------------- constants *)
\* The tolerance of the conflict rule, in milliseconds.
Tolerance == 2000

Contexts == {"A", "B"}
Users == {"u1", "u2"}
XpValues == {0, 1}
NoRow == 0

\* The callbacks a context passes to onSync, numbered in the order of the calls.
CallbackIds == 1..MaxCallbacks
NoCallback == 0

\* services/backendService.ts, and the revision kept in unnamed/part_000.
Revisions == {"services", "part_000"}

VARIABLES rev, now, allUsers, progress, remoteUsers, tasks, calls,
          inbox, handler, invoked, foreign,
          store, tables, reqCache, badData,
          registered, installed, called,
          AIRTABLE_PAT

\* The content side: the LocalStore keys of the collections, the remote content
\* tables, the request cache of each context's AirtableService and the user
\* rows whose Data blob does not parse.
content == <<store, tables, reqCache, badData>>

\* The callbacks of each context: how many were passed to onSync so far (they
\* are numbered in registration order), which one the channel's onmessage
\* handler closes over, and how often each was called.
subscriptions == <<registered, installed, called>>

vars == <<rev, now, allUsers, progress, remoteUsers, tasks, calls,
          inbox, handler, invoked, foreign, store, tables, reqCache, badData,
          registered, installed, called, AIRTABLE_PAT>>

(* ------------------------------------------------------------ user record *)
\* UserProgress, reduced to the fields the sync layer reads: the external id,
\* the version marker, the remote-row linkage and one content field (xp).
\* lastSyncTimestamp = 0 and airtableRecordId = NoRow stand for "undefined".
UserProgress(id, ts, rid, xp) ==
    [telegramId |-> id, lastSyncTimestamp |-> ts, airtableRecordId |-> rid, xp |-> xp]

NoUser == UserProgress("none", 0, NoRow, 0)

\* A record as the app builds it before the first save: no version marker
\* (fresh default) or the one of an earlier session, and no linkage.
FreshRecords ==
    {UserProgress(id, ts, NoRow, xp) : id \in Users, ts \in {0, EarlierMs}, xp \in XpValues}

(* ------------------------------------------------------------- LocalStore *)
FindIndex(roster, id) ==
    IF \E i \in 1..Len(roster) : roster[i].telegramId = id
    THEN CHOOSE i \in 1..Len(roster) :
            /\ roster[i].telegramId = id
            /\ \A j \in 1..(i - 1) : roster[j].telegramId # id
    ELSE 0

\* The roster's record for an external id, NoUser when it holds none.
Entry(roster, id) ==
    IF FindIndex(roster, id) = 0 THEN NoUser ELSE roster[FindIndex(roster, id)]

\* A record without its version marker.
NoTs(user) == [user EXCEPT !.lastSyncTimestamp = 0]

\* saveUserLocal signalling before its Storage.set is made.
SaveUserLocalRosterDeferred(roster, user) == roster

\* saveUserLocal without the lookup: the record is pushed every time.
SaveUserLocalRosterPush(roster, user) == Append(roster, user)

\* BackendService.saveUserLocal: replace the roster entry, or push a new one.
SaveUserLocalRoster(roster, user) ==
    LET idx == FindIndex(roster, user.telegramId)
    IN IF idx >= 1 THEN [roster EXCEPT ![idx] = user] ELSE Append(roster, user)

\* BackendService.updateLocalUserCache: replace the roster entry when present.
UpdateLocalUserCacheRoster(roster, user) ==
    LET idx == FindIndex(roster, user.telegramId)
    IN IF idx # 0 THEN [roster EXCEPT ![idx] = user] ELSE roster

(* ---------------------------------------------------------------- SyncBus *)
SyncMsg(c, t) == [type |-> "SYNC_UPDATE", timestamp |-> t, from |-> c]

\* BroadcastChannel.postMessage: queued at every other channel object of the
\* same name, never at the posting one.
PostMessage(box, c, msg) ==
    [d \in Contexts |-> IF d = c THEN box[d] ELSE Append(box[d], msg)]

\* BackendService.notifySync
NotifySync(box, c, t) == PostMessage(box, c, SyncMsg(c, t))

(* ------------------------------------------------------- remote user table *)
\* A row of the remote Users table: { id, fields: { TelegramId, XP, LastSync } }.
UserRow(rowId, id, xp, lastSync) ==
    [id |-> rowId, TelegramId |-> id, XP |-> xp, LastSync |-> lastSync]

\* find-by-field: the first row whose TelegramId matches, 0 when there is none.
FindRow(rows, id) ==
    IF \E i \in 1..Len(rows) : rows[i].TelegramId = id
    THEN CHOOSE i \in 1..Len(rows) :
            /\ rows[i].TelegramId = id
            /\ \A j \in 1..(i - 1) : rows[j].TelegramId # id
    ELSE 0

\* A row as a record; a row without LastSync reads as synced just now
\* (Number(fields.LastSync) || Date.now()).
RowToUser(row) ==
    UserProgress(row.TelegramId, IF row.LastSync = 0 THEN now ELSE row.LastSync,
                 row.id, row.XP)

RemoteRecord(rows, id) ==
    IF FindRow(rows, id) = 0 THEN NoUser ELSE RowToUser(rows[FindRow(rows, id)])

\* airtable.syncUser(user): remote lookup by external id and the conflict rule.
\* The set holds every (returned record, table afterwards) the rule allows;
\* a difference of exactly the tolerance is decided either way.
AirtableSyncUser(rows, user) ==
    LET i == FindRow(rows, user.telegramId)
        remote == RowToUser(rows[i])
        delta == user.lastSyncTimestamp - remote.lastSyncTimestamp
        created == UserRow(Len(rows) + 1, user.telegramId, user.xp, user.lastSyncTimestamp)
        updated == [rows[i] EXCEPT !.XP = user.xp, !.LastSync = user.lastSyncTimestamp]
    IN IF i = 0
       THEN {[user |-> [user EXCEPT !.airtableRecordId = created.id],
              rows |-> Append(rows, created)]}
       ELSE (IF delta <= Tolerance /\ delta >= -Tolerance
             THEN {[user |-> user, rows |-> rows]} ELSE {})
            \cup
            (IF delta >= Tolerance
             THEN {[user |-> user, rows |-> [rows EXCEPT ![i] = updated]]} ELSE {})
            \cup
            (IF delta <= -Tolerance
             THEN {[user |-> remote, rows |-> rows]} ELSE {})

\* airtable.getAllUsers(): the full list of the table, one record per row.
AirtableGetAllUsers(rows) == [i \in 1..Len(rows) |-> RowToUser(rows[i])]

(* ----------------------------------------------------------- content side *)
\* The LocalStore keys of the content collections that have a remote tier.
ContentKeys == {"courseModules", "materials", "streams"}

\* The LocalStore keys of the settings record and of the notifications.
StoreKeys == ContentKeys \cup {"appConfig", "local_notifications"}

\* The endpoints AirtableService.request is asked for with useCache = true.
Endpoints == {"Modules", "Lessons", "Materials", "Streams"}

\* A LocalStore key: never written, or holding a list (possibly empty).
Absent == [present |-> FALSE, items |-> << >>]
Stored(items) == [present |-> TRUE, items |-> items]

\* Storage.get(key, default): the stored value when there is one.
StorageGet(key, default) ==
    IF store[key].present THEN store[key].items ELSE default

Module(id, title, lessons) ==
    [id |-> id, title |-> title, lessons |-> lessons, category |-> "GENERAL"]
Item(id) == [id |-> id]

\* The built-in default sets shipped with the application.
COURSE_MODULES == << Module("default-module", "Default", << "default-lesson" >>) >>
MOCK_MATERIALS == << Item("default-material") >>
MOCK_STREAMS == << Item("default-stream") >>

\* Remote rows.  fid is the row's own "id" field ("" when it has none); a
\* lesson row's Module field is a list of module row ids, or (list = FALSE)
\* some other truthy value.
ModuleRow(id, fid, title, lessons2) ==
    [id |-> id, fid |-> fid, title |-> title, Lessons2 |-> lessons2]
LessonRow(id, links, list) == [id |-> id, fid |-> "", Module |-> links, list |-> list]
ItemRow(id, fid) == [id |-> id, fid |-> fid]

NoTables == [e \in Endpoints |-> << >>]

\* String(fields.id || record.id)
ExternalId(row) == IF row.fid = "" THEN row.id ELSE row.fid

\* fields.title || (the default module title)
DefaultTitle == "untitled"
TitleOf(row) == IF row.title = "" THEN DefaultTitle ELSE row.title

\* The personal access token the remote base accepts, and process.env.AIRTABLE_PAT
\* of a build that was given none.
ValidPat == "pat-of-the-base"
NoPat == ""

\* fields.x of a remote row: "" (falsy) when the row has no such field.
Field(row, name) == IF name \in DOMAIN row THEN row[name] ELSE ""

\* value || default
OrDefault(value, default) == IF value = "" THEN default ELSE value

\* The lookup object of mapCategory.  Its five keys are the Cyrillic word for
\* "module" followed by a number, written here in Latin letters.
mapping ==
    ("Modul 1" :> "GENERAL") @@ ("Modul 2" :> "SALES") @@ ("Modul 3" :> "PSYCHOLOGY") @@
    ("Modul 4" :> "TACTICS") @@ ("Modul 5" :> "GENERAL")

\* mapping is an object literal: besides its own keys, the names of
\* Object.prototype resolve on it, to a function, which is truthy.
ObjectPrototypeKeys == {"constructor", "toString"}
Inherited == "[Function]"

\* mapping[airtableCategory] || 'GENERAL'
MapCategory(airtableCategory) ==
    IF airtableCategory \in DOMAIN mapping THEN mapping[airtableCategory]
    ELSE IF airtableCategory \in ObjectPrototypeKeys THEN Inherited
    ELSE "GENERAL"

\* A lesson pushed only to the bucket of the first module row it links to.
RECURSIVE BucketOfFirstLink(_, _)
BucketOfFirstLink(lessonRows, m) ==
    IF lessonRows = << >> THEN << >>
    ELSE LET row == Head(lessonRows)
         IN (IF row.Module # << >> /\ Head(row.Module) = m
             THEN << ExternalId(row) >> ELSE << >>)
            \o BucketOfFirstLink(Tail(lessonRows), m)

\* lessonsMap.get(m): the lessons pushed to the bucket of module row id m,
\* one per occurrence of m in a lesson row's Module field, in row order.
RECURSIVE Bucket(_, _)
Bucket(lessonRows, m) ==
    IF lessonRows = << >> THEN << >>
    ELSE LET row == Head(lessonRows)
             hits == SelectSeq(row.Module, LAMBDA x : x = m)
         IN [i \in 1..Len(hits) |-> ExternalId(row)] \o Bucket(Tail(lessonRows), m)

\* The "Lessons 2" branch: the lessons of the listed rows that exist.
FromLessons2(lessonRows, lessons2) ==
    LET found == SelectSeq(lessons2,
                    LAMBDA x : \E i \in 1..Len(lessonRows) : lessonRows[i].id = x)
        RowOf(x) == lessonRows[CHOOSE i \in 1..Len(lessonRows) :
                        /\ lessonRows[i].id = x
                        /\ \A j \in 1..(i - 1) : lessonRows[j].id # x]
    IN [i \in 1..Len(found) |-> ExternalId(RowOf(found[i]))]

\* The "Lessons 2" lessons added to the bucket whatever the bucket holds.
ModuleLessonsExtended(lessonRows, row) ==
    Bucket(lessonRows, row.id) \o FromLessons2(lessonRows, row.Lessons2)

\* moduleLessons of a module row.
ModuleLessons(lessonRows, row) ==
    IF Len(Bucket(lessonRows, row.id)) = 0
    THEN FromLessons2(lessonRows, row.Lessons2)
    ELSE Bucket(lessonRows, row.id)

\* The modulesResponse.records.forEach loop with its seenTitles set.
RECURSIVE BuildModules(_, _, _)
BuildModules(moduleRows, lessonRows, seenTitles) ==
    IF moduleRows = << >> THEN << >>
    ELSE LET row == Head(moduleRows)
             module == [Module(ExternalId(row), TitleOf(row), ModuleLessons(lessonRows, row))
                            EXCEPT !.category = MapCategory(Field(row, "category"))]
         IN IF module.title \in seenTitles
            THEN BuildModules(Tail(moduleRows), lessonRows, seenTitles)
            ELSE << module >> \o
                 BuildModules(Tail(moduleRows), lessonRows, seenTitles \cup {module.title})

\* A response of AirtableService.request: resolved with records, or thrown.
Response(ok, records) == [ok |-> ok, records |-> records]

\* A public operation whose body is left to throw.
TryRethrow(failed, value, fallback) == [threw |-> failed, value |-> fallback]

\* try { return value } catch (error) { return fallback }: what the caller of a
\* public operation gets when the body failed or not.
TryCatch(failed, value, fallback) ==
    [threw |-> FALSE, value |-> IF failed THEN fallback ELSE value]

\* moduleLinks.forEach throws on a Module field that is there but is no list.
Malformed(lessonRows) == \E i \in 1..Len(lessonRows) : ~lessonRows[i].list

\* AirtableService.fetchModules on its two responses.
FetchModules(modulesResponse, lessonsResponse) ==
    TryCatch(~modulesResponse.ok \/ ~lessonsResponse.ok \/ Malformed(lessonsResponse.records),
             BuildModules(modulesResponse.records, lessonsResponse.records, {}),
             << >>)

\* AirtableService.fetchMaterials on its response.
FetchItems(response) ==
    TryCatch(~response.ok,
             [i \in 1..Len(response.records) |-> Item(ExternalId(response.records[i]))],
             << >>)

\* AirtableService.fetchLessons on its response.
FetchLessons(response) ==
    TryCatch(~response.ok,
             [i \in 1..Len(response.records) |->
                 Item(ExternalId(response.records[i])) @@
                 [homeworkType |-> OrDefault(Field(response.records[i], "homeworkType"), "TEXT")]],
             << >>)

\* AirtableService.fetchStreams on its response.
FetchStreams(response) ==
    TryCatch(~response.ok,
             [i \in 1..Len(response.records) |->
                 Item(ExternalId(response.records[i])) @@
                 [status |-> OrDefault(Field(response.records[i], "status"), "UPCOMING")]],
             << >>)

\* AirtableService.loadUserProgress(id) on the Users table: null without a
\* row, and from the catch when the request fails or JSON.parse(fields.Data)
\* throws on the first row found.
LoadUserProgress(ok, rows, id) ==
    TryCatch(~ok \/ (FindRow(rows, id) # 0 /\ FindRow(rows, id) \in badData),
             RemoteRecord(rows, id),
             NoUser)

\* The configuration of AirtableService: the token of the environment, or a
\* placeholder; the base id is a literal.
DEFAULT_PAT == OrDefault(AIRTABLE_PAT, "YOUR_AIRTABLE_PAT_TOKEN")
DEFAULT_BASE_ID == "appNbjsegO01M8Y36"

\* The Authorization header of every request, and whether the remote takes it.
Authorization == DEFAULT_PAT
Authorized == Authorization = ValidPat

\* The request cache of one AirtableService: per endpoint, the data and when.
CACHE_TTL == 300000
CacheKeys == Endpoints \cup {"Users"}
NoCache == [e \in CacheKeys |-> [has |-> FALSE, data |-> << >>, timestamp |-> 0]]

CacheHit(c, e) ==
    /\ reqCache[c][e].has
    /\ now - reqCache[c][e].timestamp < CACHE_TTL

\* AirtableService.request(endpoint, {}, true) in context c when the network
\* answers (net[e]) or fails.
Request(c, e, net) ==
    IF CacheHit(c, e) THEN Response(TRUE, reqCache[c][e].data)
    ELSE IF net[e] THEN Response(TRUE, tables[e])
    ELSE Response(FALSE, << >>)

CacheAfter(c, net, used) ==
    [e \in CacheKeys |->
        IF e \in used /\ ~CacheHit(c, e) /\ net[e]
        THEN [has |-> TRUE, data |-> tables[e], timestamp |-> now]
        ELSE reqCache[c][e]]

\* A request that is cached whatever its caller passes.
UseCacheAlways == TRUE

\* The parameter useCache of AirtableService.request when the caller leaves it
\* out, as the user lookups and the user writes do.
useCache == FALSE

\* AirtableService.request(`Users?filterByFormula=...`) in context c when the
\* network answers (ok) or fails, and the request cache after it.
UserRequest(c, ok) ==
    IF useCache /\ CacheHit(c, "Users") THEN Response(TRUE, reqCache[c]["Users"].data)
    ELSE IF ok THEN Response(TRUE, remoteUsers)
    ELSE Response(FALSE, << >>)

UserCacheAfter(c, ok) ==
    IF useCache /\ ~CacheHit(c, "Users") /\ ok
    THEN [reqCache[c] EXCEPT !["Users"] = [has |-> TRUE, data |-> remoteUsers, timestamp |-> now]]
    ELSE reqCache[c]

\* What fetchAllContent hands back, and what the three fetches resolved with.
Content(modules, materials, streams) ==
    [modules |-> modules, materials |-> materials, streams |-> streams]
NoContent == Content(<< >>, << >>, << >>)

(* ------------------------------------------------------------------ tasks *)
\* One asynchronous call of a BackendService method: its argument, the remote
\* response it is waiting for, and what it settled with.  wrote and events
\* count the LocalStore writes and the sync signals of the call; row is the
\* remote row its push found, created or updated and made whether it created
\* it; fresh says the call began after every save had reached the table;
\* again that the store already held the content it was asked to save; asked
\* that it sent a request to the remote table; before is the roster the call
\* found when it settled.
\* What an operation handed to Storage.set(key, value), when it is a list.
Save(key, value) == [key |-> key, value |-> value]
NoSave == Save("none", << >>)

NewTask(op, c, stage, arg) ==
    [op |-> op, ctx |-> c, stage |-> stage, arg |-> arg,
     ok |-> FALSE, user |-> NoUser, list |-> << >>, seen |-> NoUser,
     row |-> NoRow, made |-> FALSE, stamp |-> 0, lastSync |-> 0, fresh |-> FALSE,
     again |-> FALSE, asked |-> FALSE,
     net |-> [e \in Endpoints |-> FALSE], hits |-> {}, fetched |-> NoContent,
     retItems |-> << >>,
     retContent |-> NoContent, snapshot |-> [key \in ContentKeys |-> Absent],
     returned |-> FALSE, threw |-> FALSE, ret |-> NoUser, retList |-> << >>,
     wrote |-> 0, events |-> 0, before |-> << >>, saved |-> NoSave]

Idle == NewTask("idle", "none", "idle", NoUser)

TaskIds == 1..MaxTasks

\* No settled call is waiting to be read by its caller.
Quiet == \A k \in TaskIds : tasks[k].stage # "done"

HasFree == \E k \in TaskIds : tasks[k] = Idle

FreeSlot == CHOOSE k \in TaskIds : tasks[k] = Idle /\ \A j \in 1..(k - 1) : tasks[j] # Idle

CanCall == Quiet /\ HasFree

\* Every user has a remote row and no save is still on its way to the table.
Propagated ==
    /\ \A id \in Users : FindRow(remoteUsers, id) # 0
    /\ \A k \in TaskIds : tasks[k].op # "saveUser"

\* A context right after construction: an empty LocalStore, no call made, no
\* message queued, no callback registered.
Fresh ==
    /\ now = StartMs
    /\ allUsers = << >>
    /\ progress = NoUser
    /\ tasks = [k \in TaskIds |-> Idle]
    /\ calls = 0
    /\ inbox = [c \in Contexts |-> << >>]
    /\ handler = [c \in Contexts |-> FALSE]
    /\ invoked = [c \in Contexts |-> 0]
    /\ foreign = 0
    /\ store = [key \in StoreKeys |-> Absent]
    /\ reqCache = [c \in Contexts |-> NoCache]
    /\ badData = {}
    /\ registered = [c \in Contexts |-> 0]
    /\ installed = [c \in Contexts |-> NoCallback]
    /\ called = [c \in Contexts |-> [i \in CallbackIds |-> 0]]

Init ==
    /\ rev \in Revisions
    /\ remoteUsers = << >>
    /\ tables = NoTables
    /\ AIRTABLE_PAT = ValidPat
    /\ Fresh

\* Date.now() advances.
Tick ==
    /\ Quiet
    /\ now + TickMs <= StartMs + MaxTicks * TickMs
    /\ now' = now + TickMs
    /\ UNCHANGED <<AIRTABLE_PAT, subscriptions, content, rev, allUsers, progress, remoteUsers, tasks, calls,
                   inbox, handler, invoked, foreign>>

\* The call in slot k settles with record t.
Settle(k, t) ==
    tasks' = [tasks EXCEPT ![k] = [t EXCEPT !.stage = "done", !.before = allUsers]]

\* The caller has taken the outcome of the settled call; the slot is free again.
Release(k) ==
    /\ tasks[k].stage = "done"
    /\ tasks' = [tasks EXCEPT ![k] = Idle]
    /\ UNCHANGED <<AIRTABLE_PAT, subscriptions, content, rev, now, allUsers, progress, remoteUsers, calls,
                   inbox, handler, invoked, foreign>>

(* ============================ services/backendService.ts ================ *)
(* ---------------------------------------------------------------- syncUser *)
\* syncUser(localUser) up to the await of airtable.syncUser.
SyncUserCall(c, localUser) ==
    /\ rev = "services"
    /\ CanCall
    /\ tasks' = [tasks EXCEPT ![FreeSlot] =
            [NewTask("syncUser", c, "sent", localUser) EXCEPT !.asked = TRUE]]
    /\ calls' = calls + 1
    /\ UNCHANGED <<AIRTABLE_PAT, subscriptions, content, rev, now, allUsers, progress, remoteUsers, inbox, handler, invoked, foreign>>

\* The remote round trip of airtable.syncUser resolves or rejects.
RemoteSyncUser(k) ==
    /\ rev = "services"
    /\ Quiet
    /\ tasks[k].op \in {"syncUser", "saveUser"}
    /\ tasks[k].stage = "sent"
    /\ \/ \E out \in AirtableSyncUser(remoteUsers, tasks[k].arg) :
            /\ remoteUsers' = out.rows
            /\ tasks' = [tasks EXCEPT ![k].stage = "answered", ![k].ok = TRUE,
                            ![k].user = out.user,
                            ![k].seen = RemoteRecord(remoteUsers, tasks[k].arg.telegramId),
                            ![k].made = (FindRow(remoteUsers, tasks[k].arg.telegramId) = 0),
                            ![k].row = RemoteRecord(out.rows, tasks[k].arg.telegramId).airtableRecordId]
       \/ /\ tasks' = [tasks EXCEPT ![k].stage = "answered", ![k].ok = FALSE]
          /\ UNCHANGED remoteUsers
    /\ UNCHANGED <<AIRTABLE_PAT, subscriptions, content, rev, now, allUsers, progress, calls, inbox, handler, invoked, foreign>>

\* The comparison with its operands exchanged.
RemoteIsNewerSwapped(remoteUser, localUser) ==
    /\ remoteUser.lastSyncTimestamp # 0
    /\ localUser.lastSyncTimestamp # 0
    /\ remoteUser.lastSyncTimestamp < localUser.lastSyncTimestamp

\* The comparison without the strict order: an equal marker counts as newer.
RemoteIsNewerOrEqual(remoteUser, localUser) ==
    /\ remoteUser.lastSyncTimestamp # 0
    /\ localUser.lastSyncTimestamp # 0
    /\ remoteUser.lastSyncTimestamp >= localUser.lastSyncTimestamp

\* The comparison of syncUser: is the returned record newer than localUser?
RemoteIsNewer(remoteUser, localUser) ==
    /\ remoteUser.lastSyncTimestamp # 0
    /\ localUser.lastSyncTimestamp # 0
    /\ remoteUser.lastSyncTimestamp > localUser.lastSyncTimestamp

\* syncUser after the await: the try branch, or the catch branch.
SyncUserReturn(k) ==
    /\ rev = "services"
    /\ Quiet
    /\ tasks[k].op = "syncUser"
    /\ tasks[k].stage = "answered"
    /\ LET t == tasks[k]
       IN IF t.ok
          THEN IF RemoteIsNewer(t.user, t.arg)
               THEN /\ allUsers' = UpdateLocalUserCacheRoster(allUsers, t.user)
                    /\ Settle(k, [t EXCEPT !.returned = TRUE, !.ret = t.user])
                    /\ UNCHANGED inbox
               ELSE /\ Settle(k, [t EXCEPT !.returned = TRUE, !.ret = t.arg])
                    /\ UNCHANGED <<allUsers, inbox>>
          ELSE /\ allUsers' = SaveUserLocalRoster(allUsers, t.arg)
               /\ inbox' = NotifySync(inbox, t.ctx, now)
               /\ Settle(k, [t EXCEPT !.returned = TRUE, !.ret = t.arg,
                                      !.wrote = 1, !.events = 1])
    /\ UNCHANGED <<AIRTABLE_PAT, subscriptions, content, rev, now, progress, remoteUsers, calls, handler, invoked, foreign>>

(* ---------------------------------------------------------------- saveUser *)
\* saveUser(user) up to the end of "await this.saveUserLocal(updatedUser)":
\* the stamp, the roster write and the sync signal.
SaveUserCall(c, user) ==
    /\ rev = "services"
    /\ CanCall
    /\ LET updatedUser == [user EXCEPT !.lastSyncTimestamp = now]
       IN /\ allUsers' = SaveUserLocalRoster(allUsers, updatedUser)
          /\ inbox' = NotifySync(inbox, c, now)
          /\ tasks' = [tasks EXCEPT ![FreeSlot] =
                [NewTask("saveUser", c, "local", updatedUser) EXCEPT
                    !.wrote = 1, !.events = 1, !.stamp = now,
                    !.again = (NoTs(Entry(allUsers, user.telegramId)) = NoTs(user))]]
    /\ calls' = calls + 1
    /\ UNCHANGED <<AIRTABLE_PAT, subscriptions, content, rev, now, progress, remoteUsers, handler, invoked, foreign>>

\* saveUser awaiting the promise of airtable.syncUser before it returns.
SaveUserPushAwaited(k) ==
    /\ rev = "services"
    /\ Quiet
    /\ tasks[k].op = "saveUser"
    /\ tasks[k].stage = "local"
    /\ tasks' = [tasks EXCEPT ![k].stage = "sent", ![k].asked = TRUE]
    /\ UNCHANGED <<AIRTABLE_PAT, subscriptions, content, rev, now, allUsers, progress, remoteUsers, calls,
                   inbox, handler, invoked, foreign>>

\* saveUser after that await: airtable.syncUser(updatedUser) is started and
\* saveUser returns; nothing awaits the promise.
SaveUserPush(k) ==
    /\ rev = "services"
    /\ Quiet
    /\ tasks[k].op = "saveUser"
    /\ tasks[k].stage = "local"
    /\ tasks' = [tasks EXCEPT ![k].stage = "sent", ![k].returned = TRUE, ![k].asked = TRUE]
    /\ UNCHANGED <<AIRTABLE_PAT, subscriptions, content, rev, now, allUsers, progress, remoteUsers, calls,
                   inbox, handler, invoked, foreign>>

\* A .catch that takes the saved record back out of the roster.
SaveUserThenRollback(k) ==
    /\ rev = "services"
    /\ Quiet
    /\ tasks[k].op = "saveUser"
    /\ tasks[k].stage = "answered"
    /\ LET t == tasks[k]
       IN IF t.ok /\ t.user.airtableRecordId # t.arg.airtableRecordId
          THEN /\ allUsers' = SaveUserLocalRoster(allUsers, t.user)
               /\ inbox' = NotifySync(inbox, t.ctx, now)
               /\ Settle(k, [t EXCEPT !.wrote = t.wrote + 1, !.events = t.events + 1])
          ELSE IF t.ok
          THEN /\ Settle(k, t)
               /\ UNCHANGED <<allUsers, inbox>>
          ELSE /\ allUsers' = SelectSeq(allUsers, LAMBDA u : u.telegramId # t.arg.telegramId)
               /\ Settle(k, [t EXCEPT !.wrote = t.wrote + 1])
               /\ UNCHANGED inbox
    /\ UNCHANGED <<AIRTABLE_PAT, subscriptions, content, rev, now, progress, remoteUsers, calls, handler, invoked, foreign>>

\* The .then/.catch of saveUser's background call.
SaveUserThen(k) ==
    /\ rev = "services"
    /\ Quiet
    /\ tasks[k].op = "saveUser"
    /\ tasks[k].stage = "answered"
    /\ LET t == tasks[k]
       IN IF t.ok /\ t.user.airtableRecordId # t.arg.airtableRecordId
          THEN /\ allUsers' = SaveUserLocalRoster(allUsers, t.user)
               /\ inbox' = NotifySync(inbox, t.ctx, now)
               /\ Settle(k, [t EXCEPT !.wrote = t.wrote + 1, !.events = t.events + 1])
          ELSE /\ Settle(k, t)
               /\ UNCHANGED <<allUsers, inbox>>
    /\ UNCHANGED <<AIRTABLE_PAT, subscriptions, content, rev, now, progress, remoteUsers, calls, handler, invoked, foreign>>

(* ---------------------------------------------------------- getLeaderboard *)
GetLeaderboardCall(c) ==
    /\ rev = "services"
    /\ CanCall
    /\ tasks' = [tasks EXCEPT ![FreeSlot] =
            [NewTask("getLeaderboard", c, "sent", NoUser) EXCEPT
                !.fresh = Propagated, !.asked = TRUE]]
    /\ calls' = calls + 1
    /\ UNCHANGED <<AIRTABLE_PAT, subscriptions, content, rev, now, allUsers, progress, remoteUsers, inbox, handler, invoked, foreign>>

\* The remote round trip of airtable.getAllUsers resolves or rejects.
RemoteGetAllUsers(k) ==
    /\ rev = "services"
    /\ Quiet
    /\ tasks[k].op = "getLeaderboard"
    /\ tasks[k].stage = "sent"
    /\ \/ tasks' = [tasks EXCEPT ![k].stage = "answered", ![k].ok = TRUE,
                        ![k].list = AirtableGetAllUsers(remoteUsers)]
       \/ tasks' = [tasks EXCEPT ![k].stage = "answered", ![k].ok = FALSE]
    /\ UNCHANGED <<AIRTABLE_PAT, subscriptions, content, rev, now, allUsers, progress, remoteUsers, calls,
                   inbox, handler, invoked, foreign>>

\* getLeaderboard after the await.
GetLeaderboardReturn(k) ==
    /\ rev = "services"
    /\ Quiet
    /\ tasks[k].op = "getLeaderboard"
    /\ tasks[k].stage = "answered"
    /\ LET t == tasks[k]
       IN IF t.ok /\ Len(t.list) > 0
          THEN /\ allUsers' = t.list
               /\ Settle(k, [t EXCEPT !.returned = TRUE, !.retList = t.list, !.wrote = 1])
          ELSE /\ Settle(k, [t EXCEPT !.returned = TRUE, !.retList = allUsers])
               /\ UNCHANGED allUsers
    /\ UNCHANGED <<AIRTABLE_PAT, subscriptions, content, rev, now, progress, remoteUsers, calls, inbox, handler, invoked, foreign>>

(* ================================ unnamed/part_000 ====================== *)
\* The callers whose pending call is inside syncUserProgress.
SyncOps == {"saveUser", "syncUser", "syncUserProgress"}

\* saveUser(user): the stamp, saveUserLocal (session key, roster, signal) and
\* the start of airtable.syncUserProgress; nothing awaits the promise.
P0SaveUser(c, user) ==
    /\ rev = "part_000"
    /\ CanCall
    /\ LET updatedUser == [user EXCEPT !.lastSyncTimestamp = now]
       IN /\ progress' = updatedUser
          /\ allUsers' = SaveUserLocalRoster(allUsers, updatedUser)
          /\ inbox' = NotifySync(inbox, c, now)
          /\ tasks' = [tasks EXCEPT ![FreeSlot] =
                [NewTask("saveUser", c, "sent", updatedUser) EXCEPT
                    !.wrote = 1, !.events = 1, !.stamp = now, !.returned = TRUE,
                    !.asked = TRUE,
                    !.again = /\ NoTs(Entry(allUsers, user.telegramId)) = NoTs(user)
                              /\ NoTs(progress) = NoTs(user)]]
    /\ calls' = calls + 1
    /\ UNCHANGED <<AIRTABLE_PAT, subscriptions, content, rev, now, remoteUsers, handler, invoked, foreign>>

\* AirtableService.syncUserProgress, first round trip: the lookup by
\* TelegramId, and userData with LastSync: Date.now() built on its answer.
P0RemoteFind(k) ==
    /\ rev = "part_000" \/ tasks[k].op = "syncUserProgress"
    /\ Quiet
    /\ tasks[k].op \in SyncOps
    /\ tasks[k].stage = "sent"
    /\ \E ok \in BOOLEAN :
         LET checkData == UserRequest(tasks[k].ctx, ok)
         IN /\ reqCache' = [reqCache EXCEPT ![tasks[k].ctx] = UserCacheAfter(tasks[k].ctx, ok)]
            /\ IF checkData.ok
               THEN tasks' = [tasks EXCEPT ![k].stage = "found",
                        ![k].seen = RemoteRecord(checkData.records, tasks[k].arg.telegramId),
                        ![k].row = RemoteRecord(checkData.records, tasks[k].arg.telegramId).airtableRecordId,
                        ![k].lastSync = now]
               ELSE tasks' = [tasks EXCEPT ![k].stage = "answered",
                        ![k].ok = TryCatch(TRUE, TRUE, FALSE).value,
                        ![k].threw = TryCatch(TRUE, TRUE, FALSE).threw]
    /\ UNCHANGED <<AIRTABLE_PAT, subscriptions, rev, now, allUsers, progress, remoteUsers, calls,
                   inbox, handler, invoked, foreign, store, tables, badData>>

\* AirtableService.syncUserProgress, second round trip: PATCH of the row the
\* lookup found, or POST of a new one; a failure makes it return false.  The
\* PATCH replaces the row's Data by a freshly serialised blob.
P0RemoteWrite(k) ==
    /\ rev = "part_000" \/ tasks[k].op = "syncUserProgress"
    /\ Quiet
    /\ tasks[k].op \in SyncOps
    /\ tasks[k].stage = "found"
    /\ LET t == tasks[k]
       IN \/ /\ t.row # NoRow
             /\ remoteUsers' = [remoteUsers EXCEPT ![t.row].XP = t.arg.xp,
                                                   ![t.row].LastSync = t.lastSync]
             /\ badData' = badData \ {t.row}
             /\ tasks' = [tasks EXCEPT ![k].stage = "answered", ![k].ok = TRUE]
          \/ /\ t.row = NoRow
             /\ remoteUsers' = Append(remoteUsers,
                    UserRow(Len(remoteUsers) + 1, t.arg.telegramId, t.arg.xp, t.lastSync))
             /\ tasks' = [tasks EXCEPT ![k].stage = "answered", ![k].ok = TRUE,
                             ![k].made = TRUE, ![k].row = Len(remoteUsers) + 1]
             /\ UNCHANGED badData
          \/ /\ tasks' = [tasks EXCEPT ![k].stage = "answered",
                             ![k].ok = TryCatch(TRUE, TRUE, FALSE).value,
                             ![k].threw = TryCatch(TRUE, TRUE, FALSE).threw]
             /\ UNCHANGED <<remoteUsers, badData>>
    /\ UNCHANGED <<AIRTABLE_PAT, subscriptions, rev, now, allUsers, progress, calls, inbox, handler, invoked, foreign,
                   store, tables, reqCache>>

\* The .then/.catch of saveUser's background call: a log line.
P0SaveUserThen(k) ==
    /\ rev = "part_000"
    /\ Quiet
    /\ tasks[k].op = "saveUser"
    /\ tasks[k].stage = "answered"
    /\ Settle(k, [tasks[k] EXCEPT !.threw = FALSE])
    /\ UNCHANGED <<AIRTABLE_PAT, subscriptions, content, rev, now, allUsers, progress, remoteUsers, calls,
                   inbox, handler, invoked, foreign>>

(* ---------------------------------------------------------------- syncUser *)
\* The boolean true that syncUserProgress resolves with, used as a record: it
\* has no telegramId and no other field.
SyncedTrue == UserProgress("undefined", 0, NoRow, 0)

\* part_000 syncUser(localUser) up to the await of airtable.syncUserProgress.
P0SyncUserCall(c, localUser) ==
    /\ rev = "part_000"
    /\ CanCall
    /\ tasks' = [tasks EXCEPT ![FreeSlot] = NewTask("syncUser", c, "sent", localUser)]
    /\ calls' = calls + 1
    /\ UNCHANGED <<AIRTABLE_PAT, subscriptions, content, rev, now, allUsers, progress, remoteUsers, inbox, handler,
                   invoked, foreign>>

\* part_000 syncUser after the await: synced is true or false, and true never
\* serialises like localUser, so true is saved locally and returned; on false,
\* and from the catch, localUser is returned.
P0SyncUserReturn(k) ==
    /\ rev = "part_000"
    /\ Quiet
    /\ tasks[k].op = "syncUser"
    /\ tasks[k].stage = "answered"
    /\ LET t == tasks[k]
       IN IF ~t.threw /\ t.ok
          THEN /\ progress' = SyncedTrue
               /\ allUsers' = SaveUserLocalRoster(allUsers, SyncedTrue)
               /\ inbox' = NotifySync(inbox, t.ctx, now)
               /\ Settle(k, [t EXCEPT !.returned = TRUE, !.threw = FALSE,
                                      !.ret = SyncedTrue, !.wrote = 1, !.events = 1])
          ELSE /\ Settle(k, [t EXCEPT !.returned = TRUE, !.threw = FALSE, !.ret = t.arg])
               /\ UNCHANGED <<allUsers, progress, inbox>>
    /\ UNCHANGED <<AIRTABLE_PAT, subscriptions, content, rev, now, remoteUsers, calls, handler, invoked, foreign>>

(* ---------------------------------------------------------- getLeaderboard *)
\* getLeaderboard(): the stored roster.
P0GetLeaderboard(c) ==
    /\ rev = "part_000"
    /\ CanCall
    /\ Settle(FreeSlot, [NewTask("getLeaderboard", c, "sent", NoUser) EXCEPT
                            !.fresh = Propagated, !.returned = TRUE, !.retList = allUsers])
    /\ calls' = calls + 1
    /\ UNCHANGED <<AIRTABLE_PAT, subscriptions, content, rev, now, allUsers, progress, remoteUsers, inbox, handler, invoked, foreign>>

(* ============================ services/airtableService.ts =============== *)
\* The read operations of AirtableService and the endpoints each requests.
FetchOps == {"fetchModules", "fetchLessons", "fetchMaterials", "fetchStreams"}

EndpointsOf(op) ==
    CASE op = "fetchModules" -> {"Modules", "Lessons"}
      [] op = "fetchLessons" -> {"Lessons"}
      [] op = "fetchMaterials" -> {"Materials"}
      [] op = "fetchStreams" -> {"Streams"}

\* A caller starts a public operation of AirtableService.
AirtableCall(c, op, user) ==
    /\ CanCall
    /\ tasks' = [tasks EXCEPT ![FreeSlot] = NewTask(op, c, "sent", user)]
    /\ calls' = calls + 1
    /\ UNCHANGED <<AIRTABLE_PAT, subscriptions, content, rev, now, allUsers, progress, remoteUsers, inbox, handler,
                   invoked, foreign>>

\* fetchModules / fetchLessons / fetchMaterials / fetchStreams resolve.
FetchAnswer(k, net) ==
    /\ Quiet
    /\ tasks[k].op \in FetchOps
    /\ tasks[k].stage = "sent"
    /\ LET t == tasks[k]
           c == t.ctx
           result == CASE t.op = "fetchModules" ->
                            FetchModules(Request(c, "Modules", net), Request(c, "Lessons", net))
                       [] t.op = "fetchLessons" -> FetchLessons(Request(c, "Lessons", net))
                       [] t.op = "fetchMaterials" -> FetchItems(Request(c, "Materials", net))
                       [] t.op = "fetchStreams" -> FetchStreams(Request(c, "Streams", net))
       IN /\ reqCache' = [reqCache EXCEPT ![c] = CacheAfter(c, net, EndpointsOf(t.op))]
          /\ Settle(k, [t EXCEPT !.net = net,
                                 !.hits = {e \in EndpointsOf(t.op) : CacheHit(c, e)},
                                 !.returned = ~result.threw, !.threw = result.threw,
                                 !.retItems = result.value])
    /\ UNCHANGED <<AIRTABLE_PAT, subscriptions, rev, now, allUsers, progress, remoteUsers, calls, inbox, handler,
                   invoked, foreign, store, tables, badData>>

\* loadUserProgress(telegramId) resolves: the request is never cached.
LoadUserProgressAnswer(k, ok) ==
    /\ Quiet
    /\ tasks[k].op = "loadUserProgress"
    /\ tasks[k].stage = "sent"
    /\ LET t == tasks[k]
           data == UserRequest(t.ctx, ok)
           result == LoadUserProgress(data.ok, data.records, t.arg.telegramId)
       IN /\ reqCache' = [reqCache EXCEPT ![t.ctx] = UserCacheAfter(t.ctx, ok)]
          /\ Settle(k, [t EXCEPT !.ok = ok, !.returned = ~result.threw,
                                 !.threw = result.threw, !.ret = result.value])
    /\ UNCHANGED <<AIRTABLE_PAT, subscriptions, rev, now, allUsers, progress, remoteUsers, calls, inbox,
                   handler, invoked, foreign, store, tables, badData>>

\* syncUserProgress called on its own resolves with true or false.
SyncUserProgressReturn(k) ==
    /\ Quiet
    /\ tasks[k].op = "syncUserProgress"
    /\ tasks[k].stage = "answered"
    /\ Settle(k, [tasks[k] EXCEPT !.returned = ~tasks[k].threw])
    /\ UNCHANGED <<AIRTABLE_PAT, subscriptions, content, rev, now, allUsers, progress, remoteUsers, calls, inbox,
                   handler, invoked, foreign>>

\* A user row's Data field is left holding text that is no JSON.
CorruptData(row) ==
    /\ Quiet
    /\ row \in 1..Len(remoteUsers)
    /\ row \notin badData
    /\ badData' = badData \cup {row}
    /\ UNCHANGED <<AIRTABLE_PAT, subscriptions, rev, now, allUsers, progress, remoteUsers, tasks, calls, inbox,
                   handler, invoked, foreign, store, tables, reqCache>>

(* ================================ content: both revisions ================ *)
\* storageKeyMap of saveCollection: the LocalStore key of a content table.
StorageKeyMap(table) ==
    CASE table = "modules" -> "courseModules"
      [] table = "materials" -> "materials"
      [] table = "streams" -> "streams"
      [] OTHER -> "none"

\* saveCollection(table, items): the key's list is replaced and the other
\* contexts are signalled; a table without a key changes nothing.
SaveCollection(c, table, items) ==
    /\ CanCall
    /\ LET key == StorageKeyMap(table)
       IN IF key \in ContentKeys
          THEN /\ store' = [store EXCEPT ![key] = Stored(items)]
               /\ inbox' = NotifySync(inbox, c, now)
          ELSE UNCHANGED <<store, inbox>>
    /\ Settle(FreeSlot, [NewTask("saveCollection", c, "sent", NoUser) EXCEPT
                            !.returned = TRUE, !.snapshot = store,
                            !.saved = Save(StorageKeyMap(table), items)])
    /\ calls' = calls + 1
    /\ UNCHANGED <<AIRTABLE_PAT, subscriptions, rev, now, allUsers, progress, remoteUsers, handler, invoked, foreign,
                   tables, reqCache, badData>>

\* saveGlobalConfig(config): the settings record is stored, then the other
\* contexts are signalled.
SaveGlobalConfig(c, config) ==
    /\ CanCall
    /\ store' = [store EXCEPT !["appConfig"] = Stored(config)]
    /\ inbox' = NotifySync(inbox, c, now)
    /\ Settle(FreeSlot, [NewTask("saveGlobalConfig", c, "sent", NoUser) EXCEPT
                            !.returned = TRUE, !.snapshot = store, !.wrote = 1, !.events = 1,
                            !.saved = Save("appConfig", config)])
    /\ calls' = calls + 1
    /\ UNCHANGED <<AIRTABLE_PAT, subscriptions, rev, now, allUsers, progress, remoteUsers, handler,
                   invoked, foreign, tables, reqCache, badData>>

\* sendBroadcast(notification): the notification is put in front of the
\* stored list, then the other contexts are signalled.
SendBroadcast(c, notification) ==
    /\ CanCall
    /\ LET current == StorageGet("local_notifications", << >>)
       IN /\ store' = [store EXCEPT
                    !["local_notifications"] = Stored(<< notification >> \o current)]
          /\ Settle(FreeSlot, [NewTask("sendBroadcast", c, "sent", NoUser) EXCEPT
                    !.returned = TRUE, !.snapshot = store, !.wrote = 1, !.events = 1,
                    !.saved = Save("local_notifications", << notification >> \o current)])
    /\ inbox' = NotifySync(inbox, c, now)
    /\ calls' = calls + 1
    /\ UNCHANGED <<AIRTABLE_PAT, subscriptions, rev, now, allUsers, progress, remoteUsers, handler,
                   invoked, foreign, tables, reqCache, badData>>

\* The three collections as the LocalStore answers for them.
LocalContent ==
    Content(StorageGet("courseModules", COURSE_MODULES),
            StorageGet("materials", MOCK_MATERIALS),
            StorageGet("streams", MOCK_STREAMS))

\* services/backendService.ts fetchAllContent: the local tiers only.
FetchAllContent(c) ==
    /\ rev = "services"
    /\ CanCall
    /\ Settle(FreeSlot, [NewTask("fetchAllContent", c, "sent", NoUser) EXCEPT
                            !.returned = TRUE, !.snapshot = store,
                            !.retContent = LocalContent])
    /\ calls' = calls + 1
    /\ UNCHANGED <<AIRTABLE_PAT, subscriptions, content, rev, now, allUsers, progress, remoteUsers, inbox, handler,
                   invoked, foreign>>

\* part_000 fetchAllContent up to the await of Promise.all.
P0FetchAllContentCall(c) ==
    /\ rev = "part_000"
    /\ CanCall
    /\ tasks' = [tasks EXCEPT ![FreeSlot] = NewTask("fetchAllContent", c, "sent", NoUser)]
    /\ calls' = calls + 1
    /\ UNCHANGED <<AIRTABLE_PAT, subscriptions, content, rev, now, allUsers, progress, remoteUsers, inbox, handler,
                   invoked, foreign>>

\* The requests of fetchModules, fetchMaterials and fetchStreams resolve: each
\* endpoint is served from the request cache, by the network, or fails.
P0FetchAllContentRemote(k, net) ==
    /\ Quiet
    /\ tasks[k].op = "fetchAllContent"
    /\ tasks[k].stage = "sent"
    /\ LET c == tasks[k].ctx
           mods == FetchModules(Request(c, "Modules", net), Request(c, "Lessons", net))
           mats == FetchItems(Request(c, "Materials", net))
           strs == FetchStreams(Request(c, "Streams", net))
       IN /\ reqCache' = [reqCache EXCEPT ![c] = CacheAfter(c, net, Endpoints)]
          /\ tasks' = [tasks EXCEPT ![k] =
                [@ EXCEPT !.stage = "answered", !.net = net,
                          !.hits = {e \in Endpoints : CacheHit(c, e)},
                          !.ok = ~(mods.threw \/ mats.threw \/ strs.threw),
                          !.fetched = Content(mods.value, mats.value, strs.value)]]
    /\ UNCHANGED <<AIRTABLE_PAT, subscriptions, rev, now, allUsers, progress, remoteUsers, calls, inbox, handler,
                   invoked, foreign, store, tables, badData>>

\* The fetched list whatever its length.
PreferFetched(fetched, key, default) == fetched

\* The fetched list put behind what the LocalStore holds.
PreferMerged(fetched, key, default) == StorageGet(key, << >>) \o fetched

\* A fetched list when it has items, otherwise what the LocalStore answers.
Prefer(fetched, key, default) ==
    IF Len(fetched) > 0 THEN fetched ELSE StorageGet(key, default)

\* part_000 fetchAllContent after the await: choose per collection, cache
\* everything locally, signal, return; its catch answers from the LocalStore.
P0FetchAllContentReturn(k) ==
    /\ rev = "part_000"
    /\ Quiet
    /\ tasks[k].op = "fetchAllContent"
    /\ tasks[k].stage = "answered"
    /\ LET t == tasks[k]
           chosen == Content(Prefer(t.fetched.modules, "courseModules", COURSE_MODULES),
                             Prefer(t.fetched.materials, "materials", MOCK_MATERIALS),
                             Prefer(t.fetched.streams, "streams", MOCK_STREAMS))
       IN IF t.ok
          THEN /\ store' = [store EXCEPT !["courseModules"] = Stored(chosen.modules),
                                         !["materials"] = Stored(chosen.materials),
                                         !["streams"] = Stored(chosen.streams)]
               /\ inbox' = NotifySync(inbox, t.ctx, now)
               /\ Settle(k, [t EXCEPT !.returned = TRUE, !.snapshot = store,
                                      !.retContent = chosen, !.events = 1])
          ELSE /\ Settle(k, [t EXCEPT !.returned = TRUE, !.snapshot = store,
                                      !.retContent = LocalContent])
               /\ UNCHANGED <<store, inbox>>
    /\ UNCHANGED <<AIRTABLE_PAT, subscriptions, rev, now, allUsers, progress, remoteUsers, calls, handler, invoked,
                   foreign, tables, reqCache, badData>>

\* Somebody edits the remote content tables in the backend's own interface.
RemoteEdit(rows) ==
    /\ Quiet
    /\ tables # rows
    /\ tables' = rows
    /\ UNCHANGED <<AIRTABLE_PAT, subscriptions, rev, now, allUsers, progress, remoteUsers, tasks, calls, inbox,
                   handler, invoked, foreign, store, reqCache, badData>>

\* Nothing happens for as long as a request cache entry lives.
Wait ==
    /\ Quiet
    /\ now + CACHE_TTL <= StartMs + MaxWaits * CACHE_TTL
    /\ now' = now + CACHE_TTL
    /\ UNCHANGED <<AIRTABLE_PAT, subscriptions, content, rev, allUsers, progress, remoteUsers, tasks, calls,
                   inbox, handler, invoked, foreign>>

(* ------------------------------------------------------------ environment *)
\* Another device's client pushes its record for user id to the remote table.
OtherDeviceWrite(id, xp) ==
    /\ Quiet
    /\ calls' = calls + 1
    /\ LET i == FindRow(remoteUsers, id)
       IN /\ remoteUsers' =
                IF i = 0
                THEN Append(remoteUsers, UserRow(Len(remoteUsers) + 1, id, xp, now))
                ELSE [remoteUsers EXCEPT ![i].XP = xp, ![i].LastSync = now]
          /\ remoteUsers' # remoteUsers
    /\ UNCHANGED <<AIRTABLE_PAT, subscriptions, content, rev, now, allUsers, progress, tasks, inbox, handler, invoked, foreign>>

\* Another client's syncUserProgress whose lookup found no row for user id
\* creates one, whatever the table holds by the time of its POST.
OtherDevicePost(id, xp) ==
    /\ Quiet
    /\ Len(remoteUsers) < MaxRemoteRows
    /\ remoteUsers' = Append(remoteUsers, UserRow(Len(remoteUsers) + 1, id, xp, now))
    /\ UNCHANGED <<AIRTABLE_PAT, subscriptions, content, rev, now, allUsers, progress, tasks, calls, inbox, handler,
                   invoked, foreign>>

(* ------------------------------------------------------------------ events *)
\* onSync(callback): installs channel.onmessage.
OnSync(c) ==
    /\ Quiet
    /\ registered[c] < MaxCallbacks
    /\ registered' = [registered EXCEPT ![c] = @ + 1]
    /\ handler' = [handler EXCEPT ![c] = TRUE]
    /\ installed' = [installed EXCEPT ![c] = registered[c] + 1]
    /\ UNCHANGED <<AIRTABLE_PAT, content, rev, now, allUsers, progress, remoteUsers, tasks, calls,
                   inbox, invoked, foreign, called>>

\* A handler that calls back on every message, whatever its type.
CallsBackAny(msg) == msg.type = msg.type

\* The onmessage handler installed by onSync decides whether to call back.
CallsBack(msg) == msg.type = "SYNC_UPDATE"

\* The channel of context c dispatches its next message event.
Deliver(c) ==
    /\ inbox[c] # << >>
    /\ inbox' = [inbox EXCEPT ![c] = Tail(inbox[c])]
    /\ invoked' = [invoked EXCEPT
            ![c] = IF handler[c] /\ CallsBack(Head(inbox[c])) THEN @ + 1 ELSE @]
    /\ called' = [called EXCEPT
            ![c] = IF handler[c] /\ CallsBack(Head(inbox[c]))
                   THEN [@ EXCEPT ![installed[c]] = @ + 1]
                   ELSE @]
    /\ UNCHANGED <<AIRTABLE_PAT, content, rev, now, allUsers, progress, remoteUsers, tasks, calls,
                   handler, foreign, registered, installed>>

\* Some other script of the page posts a message of its own on the channel name.
ForeignPost(c) ==
    /\ Quiet
    /\ foreign < MaxForeign
    /\ foreign' = foreign + 1
    /\ inbox' = PostMessage(inbox, c, [type |-> "PING", timestamp |-> now, from |-> c])
    /\ UNCHANGED <<AIRTABLE_PAT, subscriptions, content, rev, now, allUsers, progress, remoteUsers, tasks, calls, handler, invoked>>

(* ------------------------------------------------------------------ inputs *)
\* The user of the session in the context at work; the other user's records
\* reach it through the remote table only.
SessionUser == "u1"

\* What the session passes to syncUser: a record it built, or the roster's.
SyncInputs ==
    {r \in FreshRecords : r.telegramId = SessionUser /\ r.xp = 0} \cup
    {allUsers[i] : i \in {j \in 1..Len(allUsers) : allUsers[j].telegramId = SessionUser}}

\* What the session passes to saveUser: a record it built, or the roster's with
\* new content (saveUser replaces the version marker in either).
SaveInputs ==
    {r \in FreshRecords : r.telegramId = SessionUser /\ r.lastSyncTimestamp = 0 /\ r.xp = 0} \cup
    {[allUsers[i] EXCEPT !.xp = x] :
        i \in {j \in 1..Len(allUsers) : allUsers[j].telegramId = SessionUser}, x \in XpValues}

(* ---------------------------------------------------------- specifications *)
\* One context at work on the shared store and the remote table.
Next ==
    \/ Tick
    \/ calls < MaxCalls /\ \E u \in SyncInputs : SyncUserCall("A", u)
    \/ \E k \in TaskIds : RemoteSyncUser(k)
    \/ \E k \in TaskIds : SyncUserReturn(k)
    \/ calls < MaxCalls /\ \E u \in SaveInputs : SaveUserCall("A", u)
    \/ \E k \in TaskIds : SaveUserPush(k)
    \/ \E k \in TaskIds : SaveUserThen(k)
    \/ calls < MaxCalls /\ GetLeaderboardCall("A")
    \/ \E k \in TaskIds : RemoteGetAllUsers(k)
    \/ \E k \in TaskIds : GetLeaderboardReturn(k)
    \/ calls < MaxCalls /\ \E u \in SaveInputs : P0SaveUser("A", u)
    \/ \E k \in TaskIds : P0RemoteFind(k)
    \/ \E k \in TaskIds : P0RemoteWrite(k)
    \/ \E k \in TaskIds : P0SaveUserThen(k)
    \/ calls < MaxCalls /\ P0GetLeaderboard("A")
    \/ calls < MaxCalls /\ \E id \in Users : OtherDeviceWrite(id, 1)
    \/ \E k \in TaskIds : Release(k)

Spec == Init /\ [][Next]_vars

\* Two contexts, each saving its own user and reading the leaderboard.
Own(c) == IF c = "A" THEN "u1" ELSE "u2"

NextTwo ==
    \/ calls < MaxTwoCalls /\ \E c \in Contexts : SaveUserCall(c, UserProgress(Own(c), 0, NoRow, 0))
    \/ \E k \in TaskIds : SaveUserPush(k)
    \/ \E k \in TaskIds : RemoteSyncUser(k)
    \/ \E k \in TaskIds : SaveUserThen(k)
    \/ calls < MaxTwoCalls /\ \E c \in Contexts : GetLeaderboardCall(c)
    \/ \E k \in TaskIds : RemoteGetAllUsers(k)
    \/ \E k \in TaskIds : GetLeaderboardReturn(k)
    \/ calls < MaxTwoCalls /\ \E c \in Contexts : P0SaveUser(c, UserProgress(Own(c), 0, NoRow, 0))
    \/ \E k \in TaskIds : P0RemoteFind(k)
    \/ \E k \in TaskIds : P0RemoteWrite(k)
    \/ \E k \in TaskIds : P0SaveUserThen(k)
    \/ calls < MaxTwoCalls /\ \E c \in Contexts : P0GetLeaderboard(c)
    \/ \E k \in TaskIds : Release(k)

TwoSpec == Init /\ [][NextTwo]_vars

\* The broadcast side: saves in every context, subscriptions and dispatch.
NextBus ==
    \/ calls < MaxBusCalls /\ \E c \in Contexts : SaveUserCall(c, UserProgress("u1", 0, NoRow, 0))
    \/ \E k \in TaskIds : SaveUserPush(k)
    \/ \E k \in TaskIds : RemoteSyncUser(k)
    \/ \E k \in TaskIds : SaveUserThen(k)
    \/ calls < MaxBusCalls /\ \E c \in Contexts : P0SaveUser(c, UserProgress("u1", 0, NoRow, 0))
    \/ \E k \in TaskIds : P0RemoteFind(k)
    \/ \E k \in TaskIds : P0RemoteWrite(k)
    \/ \E k \in TaskIds : P0SaveUserThen(k)
    \/ \E c \in Contexts : registered[c] = 0 /\ OnSync(c)
    \/ \E c \in Contexts : Deliver(c)
    \/ \E c \in Contexts : ForeignPost(c)
    \/ \E k \in TaskIds : Release(k)

BusSpec == Init /\ [][NextBus]_vars

\* Every channel keeps dispatching the message events queued at it.
BusFair == BusSpec /\ \A c \in Contexts : WF_vars(Deliver(c))

\* A session whose user has a remote row from an earlier session.
ConflictInit ==
    /\ rev \in Revisions
    /\ remoteUsers = << UserRow(1, SessionUser, 1, EarlierMs) >>
    /\ tables = NoTables
    /\ AIRTABLE_PAT = ValidPat
    /\ Fresh

\* It saves and synchronises its user while time passes.
NextConflict ==
    \/ Tick
    \/ calls < MaxConflictCalls /\ \E u \in SyncInputs : SyncUserCall("A", u)
    \/ \E k \in TaskIds : RemoteSyncUser(k)
    \/ \E k \in TaskIds : SyncUserReturn(k)
    \/ calls < MaxConflictCalls /\ \E u \in SaveInputs : SaveUserCall("A", u)
    \/ \E k \in TaskIds : SaveUserPush(k)
    \/ \E k \in TaskIds : SaveUserThen(k)
    \/ calls < MaxConflictCalls /\ \E u \in SaveInputs : P0SaveUser("A", u)
    \/ \E k \in TaskIds : P0RemoteFind(k)
    \/ \E k \in TaskIds : P0RemoteWrite(k)
    \/ \E k \in TaskIds : P0SaveUserThen(k)
    \/ calls < MaxConflictCalls /\ \E u \in SyncInputs : P0SyncUserCall("A", u)
    \/ \E k \in TaskIds : P0SyncUserReturn(k)
    \/ \E k \in TaskIds : Release(k)

ConflictSpec == ConflictInit /\ [][NextConflict]_vars

\* A page that passes several callbacks to onSync, one call after the other,
\* while the other contexts save users.
NextSubscribe ==
    \/ calls < MaxSubscribeCalls /\ \E c \in Contexts : SaveUserCall(c, UserProgress("u1", 0, NoRow, 0))
    \/ \E k \in TaskIds : SaveUserPush(k)
    \/ \E k \in TaskIds : RemoteSyncUser(k)
    \/ \E k \in TaskIds : SaveUserThen(k)
    \/ calls < MaxSubscribeCalls /\ \E c \in Contexts : P0SaveUser(c, UserProgress("u1", 0, NoRow, 0))
    \/ \E k \in TaskIds : P0RemoteFind(k)
    \/ \E k \in TaskIds : P0RemoteWrite(k)
    \/ \E k \in TaskIds : P0SaveUserThen(k)
    \/ \E c \in Contexts : OnSync(c)
    \/ \E c \in Contexts : Deliver(c)
    \/ \E k \in TaskIds : Release(k)

SubscribeSpec == Init /\ [][NextSubscribe]_vars

\* The content tables as an editor may leave them: filled, or without modules.
FilledTables ==
    [Modules |-> << ModuleRow("recM1", "m1", "T1", << >>) >>,
     Lessons |-> << LessonRow("recL1", << "recM1" >>, TRUE) >>,
     Materials |-> << ItemRow("recA1", "a1") >>,
     Streams |-> << ItemRow("recS1", "") >>]

TableInputs == {NoTables, FilledTables, [FilledTables EXCEPT !.Modules = << >>]}

\* The lists an administrator saves, the empty one included.
CollectionInputs ==
    [modules |-> {<< >>, << Module("m9", "Edited", << "l9" >>) >>},
     materials |-> {<< >>, << Item("a9") >>},
     streams |-> {<< >>},
     app_settings |-> {<< >>}]

\* The network: every request answered, none, or all but the one for modules.
Reachability ==
    {[e \in Endpoints |-> TRUE], [e \in Endpoints |-> FALSE],
     [e \in Endpoints |-> e # "Modules"]}

\* One context reading and saving the content collections.
NextContent ==
    \/ Wait
    \/ calls < MaxContentCalls /\
            \E table \in DOMAIN CollectionInputs : \E items \in CollectionInputs[table] :
                SaveCollection("A", table, items)
    \/ calls < MaxContentCalls /\ FetchAllContent("A")
    \/ calls < MaxContentCalls /\ P0FetchAllContentCall("A")
    \/ \E k \in TaskIds : \E net \in Reachability : P0FetchAllContentRemote(k, net)
    \/ \E k \in TaskIds : P0FetchAllContentReturn(k)
    \/ \E rows \in TableInputs : RemoteEdit(rows)
    \/ calls < MaxContentCalls /\
            AirtableCall("A", "loadUserProgress", [NoUser EXCEPT !.telegramId = SessionUser])
    \/ \E k \in TaskIds : \E ok \in BOOLEAN : LoadUserProgressAnswer(k, ok)
    \/ remoteUsers = << >> /\ OtherDeviceWrite(SessionUser, 1)
    \/ \E k \in TaskIds : Release(k)

ContentSpec == Init /\ [][NextContent]_vars

\* Record ids of the rows of a table, by position.
ModuleIds == << "recM1", "recM2", "recM3", "recM4" >>
LessonIds == << "recL1", "recL2", "recL3", "recL4" >>

\* The Modules and Lessons tables fetchModules may find: up to MaxRows rows
\* each; a module row has one of two titles and an empty or one-entry
\* "Lessons 2" field, a lesson row links to no module, to the first, or to the
\* first two, or holds a Module field that is no list.
ModuleTables ==
    UNION {[1..n -> {"T1", "T2"} \X {<< >>, << "recL1" >>}] : n \in 0..MaxRows}

LessonTables ==
    UNION {[1..n -> {<< << >>, TRUE >>, << << "recM1" >>, TRUE >>,
                     << << "recM1", "recM2" >>, TRUE >>, << << >>, FALSE >>}] :
           n \in 0..MaxRows}

ModuleRows(f) == [i \in DOMAIN f |-> ModuleRow(ModuleIds[i], "", f[i][1], f[i][2])]
LessonRows(f) == [i \in DOMAIN f |-> LessonRow(LessonIds[i], f[i][1], f[i][2])]

\* The user rows loadUserProgress may find: none, or one for the session user.
UserTables == {<< >>, << UserRow(1, SessionUser, 1, EarlierMs) >>}

AssemblyInit ==
    /\ rev = "part_000"
    /\ remoteUsers \in UserTables
    /\ \E f \in ModuleTables : \E g \in LessonTables :
            tables = [NoTables EXCEPT !.Modules = ModuleRows(f), !.Lessons = LessonRows(g)]
    /\ AIRTABLE_PAT = ValidPat
    /\ Fresh

\* fetchModules and loadUserProgress called on tables as they happen to be.
NextAssembly ==
    \/ calls < MaxAssemblyCalls /\ AirtableCall("A", "fetchModules", NoUser)
    \/ \E k \in TaskIds : \E net \in Reachability : FetchAnswer(k, net)
    \/ calls < MaxAssemblyCalls /\
            AirtableCall("A", "loadUserProgress", [NoUser EXCEPT !.telegramId = SessionUser])
    \/ \E k \in TaskIds : \E ok \in BOOLEAN : LoadUserProgressAnswer(k, ok)
    \/ \E row \in 1..MaxRows : CorruptData(row)
    \/ \E k \in TaskIds : Release(k)

AssemblySpec == AssemblyInit /\ [][NextAssembly]_vars

\* The values an editor of the remote base may leave in the enumeration
\* columns: none, one the application knows, another one.
BackendCategories == {"", "Modul 2", "Modul 4", "Modul 9", "constructor"}
BackendHomeworkTypes == {"", "TEXT", "PHOTO", "ESSAY"}
BackendStatuses == {"", "UPCOMING", "LIVE", "Postponed"}

\* One row per content table, with any of these values in its column.
MappingInit ==
    /\ rev = "part_000"
    /\ remoteUsers = << >>
    /\ \E category \in BackendCategories : \E homeworkType \in BackendHomeworkTypes :
       \E status \in BackendStatuses :
            tables = [NoTables EXCEPT
                !.Modules = << ModuleRow("recM1", "", "T1", << >>) @@ [category |-> category] >>,
                !.Lessons = << LessonRow("recL1", << "recM1" >>, TRUE) @@
                               [homeworkType |-> homeworkType] >>,
                !.Streams = << ItemRow("recS1", "") @@ [status |-> status] >>]
    /\ AIRTABLE_PAT = ValidPat
    /\ Fresh

\* fetchModules, fetchLessons and fetchStreams called on such tables.
NextMapping ==
    \/ calls < MaxMappingCalls /\
            \E op \in {"fetchModules", "fetchLessons", "fetchStreams"} : AirtableCall("A", op, NoUser)
    \/ \E k \in TaskIds : \E net \in Reachability : FetchAnswer(k, net)
    \/ \E k \in TaskIds : Release(k)

MappingSpec == MappingInit /\ [][NextMapping]_vars

\* What an editor may put in the link fields: the "Lessons 2" field of the
\* first module row lists lesson rows out of row order, with or without an id
\* that is no lesson row; that of the second lists the second lesson row; a
\* lesson row links to the second module row or to none.
Lessons2Inputs == {<< >>, << "recL2", "recL1" >>, << "recL9", "recL2", "recL1" >>}
ModuleLinkInputs == {<< >>, << "recM2" >>}

LinkInit ==
    /\ rev = "part_000"
    /\ remoteUsers = << >>
    /\ \E listed \in Lessons2Inputs : \E other \in {<< >>, << "recL2" >>} :
       \E first \in ModuleLinkInputs : \E second \in ModuleLinkInputs : \E fid \in {"", "l2"} :
            tables = [NoTables EXCEPT
                !.Modules = << ModuleRow("recM1", "", "T1", listed),
                               ModuleRow("recM2", "", "T2", other) >>,
                !.Lessons = << LessonRow("recL1", first, TRUE),
                               [LessonRow("recL2", second, TRUE) EXCEPT !.fid = fid] >>]
    /\ AIRTABLE_PAT = ValidPat
    /\ Fresh

\* fetchModules called on such tables.
NextLink ==
    \/ calls < MaxLinkCalls /\ AirtableCall("A", "fetchModules", NoUser)
    \/ \E k \in TaskIds : \E net \in Reachability : FetchAnswer(k, net)
    \/ \E k \in TaskIds : Release(k)

LinkSpec == LinkInit /\ [][NextLink]_vars

\* A build with or without a token in its environment, and filled tables.
ConfigInit ==
    /\ rev = "part_000"
    /\ remoteUsers = << >>
    /\ tables = FilledTables
    /\ AIRTABLE_PAT \in {NoPat, ValidPat}
    /\ Fresh

\* What the network and the remote make of a request: with a token the remote
\* does not take, response.ok is false for every endpoint.
Outcomes == IF Authorized THEN Reachability ELSE {[e \in Endpoints |-> FALSE]}

\* The content reads of such a build.
NextConfig ==
    \/ calls < MaxConfigCalls /\ P0FetchAllContentCall("A")
    \/ \E k \in TaskIds : \E net \in Outcomes : P0FetchAllContentRemote(k, net)
    \/ \E k \in TaskIds : P0FetchAllContentReturn(k)
    \/ calls < MaxConfigCalls /\ \E op \in FetchOps : AirtableCall("A", op, NoUser)
    \/ \E k \in TaskIds : \E net \in Outcomes : FetchAnswer(k, net)
    \/ \E k \in TaskIds : Release(k)

ConfigSpec == ConfigInit /\ [][NextConfig]_vars

\* The record the session passes in when the remote tier is being failed.
FailureUser == UserProgress(SessionUser, EarlierMs, NoRow, 0)

\* Every public operation of AirtableService and every method of
\* BackendService that reaches the remote tier, each request of which may fail.
NextFailure ==
    \/ calls < MaxFailureCalls /\ \E op \in FetchOps : AirtableCall("A", op, NoUser)
    \/ calls < MaxFailureCalls /\
            AirtableCall("A", "loadUserProgress", [NoUser EXCEPT !.telegramId = SessionUser])
    \/ calls < MaxFailureCalls /\ AirtableCall("A", "syncUserProgress", FailureUser)
    \/ \E k \in TaskIds : \E net \in Reachability : FetchAnswer(k, net)
    \/ \E k \in TaskIds : \E ok \in BOOLEAN : LoadUserProgressAnswer(k, ok)
    \/ \E k \in TaskIds : P0RemoteFind(k)
    \/ \E k \in TaskIds : P0RemoteWrite(k)
    \/ \E k \in TaskIds : SyncUserProgressReturn(k)
    \/ calls < MaxFailureCalls /\ SyncUserCall("A", FailureUser)
    \/ \E k \in TaskIds : RemoteSyncUser(k)
    \/ \E k \in TaskIds : SyncUserReturn(k)
    \/ calls < MaxFailureCalls /\ SaveUserCall("A", FailureUser)
    \/ \E k \in TaskIds : SaveUserPush(k)
    \/ \E k \in TaskIds : SaveUserThen(k)
    \/ calls < MaxFailureCalls /\ GetLeaderboardCall("A")
    \/ \E k \in TaskIds : RemoteGetAllUsers(k)
    \/ \E k \in TaskIds : GetLeaderboardReturn(k)
    \/ calls < MaxFailureCalls /\ FetchAllContent("A")
    \/ calls < MaxFailureCalls /\ P0SyncUserCall("A", FailureUser)
    \/ \E k \in TaskIds : P0SyncUserReturn(k)
    \/ calls < MaxFailureCalls /\ P0SaveUser("A", FailureUser)
    \/ \E k \in TaskIds : P0SaveUserThen(k)
    \/ calls < MaxFailureCalls /\ P0GetLeaderboard("A")
    \/ calls < MaxFailureCalls /\ P0FetchAllContentCall("A")
    \/ \E k \in TaskIds : \E net \in Reachability : P0FetchAllContentRemote(k, net)
    \/ \E k \in TaskIds : P0FetchAllContentReturn(k)
    \/ \E rows \in TableInputs : RemoteEdit(rows)
    \/ \E k \in TaskIds : Release(k)

FailureSpec == Init /\ [][NextFailure]_vars

\* What an administrator saves for the session user, and the older record
\* the session itself still holds.
AdminRecord == UserProgress(SessionUser, 0, NoRow, 1)
StaleRecord == UserProgress(SessionUser, EarlierMs, NoRow, 0)

\* The roster under an administrator's saves (context B), the session's own
\* syncUser and getLeaderboard (context A) and other clients of the table.
NextRoster ==
    \/ calls < MaxRosterCalls /\ SaveUserCall("B", AdminRecord)
    \/ \E k \in TaskIds : SaveUserPush(k)
    \/ \E k \in TaskIds : SaveUserThen(k)
    \/ calls < MaxRosterCalls /\ SyncUserCall("A", StaleRecord)
    \/ \E k \in TaskIds : RemoteSyncUser(k)
    \/ \E k \in TaskIds : SyncUserReturn(k)
    \/ calls < MaxRosterCalls /\ GetLeaderboardCall("A")
    \/ \E k \in TaskIds : RemoteGetAllUsers(k)
    \/ \E k \in TaskIds : GetLeaderboardReturn(k)
    \/ calls < MaxRosterCalls /\ P0SaveUser("B", AdminRecord)
    \/ \E k \in TaskIds : P0RemoteFind(k)
    \/ \E k \in TaskIds : P0RemoteWrite(k)
    \/ \E k \in TaskIds : P0SaveUserThen(k)
    \/ calls < MaxRosterCalls /\ P0SyncUserCall("A", StaleRecord)
    \/ \E k \in TaskIds : P0SyncUserReturn(k)
    \/ calls < MaxRosterCalls /\ P0GetLeaderboard("A")
    \/ OtherDevicePost(SessionUser, 1)
    \/ \E k \in TaskIds : Release(k)

RosterSpec == Init /\ [][NextRoster]_vars

\* Every operation that signals the other contexts, called in context A.
NextPublish ==
    \/ calls < MaxPublishCalls /\ SaveUserCall("A", FailureUser)
    \/ \E k \in TaskIds : SaveUserPush(k)
    \/ \E k \in TaskIds : RemoteSyncUser(k)
    \/ \E k \in TaskIds : SaveUserThen(k)
    \/ calls < MaxPublishCalls /\ SyncUserCall("A", FailureUser)
    \/ \E k \in TaskIds : SyncUserReturn(k)
    \/ calls < MaxPublishCalls /\ P0SaveUser("A", FailureUser)
    \/ \E k \in TaskIds : P0RemoteFind(k)
    \/ \E k \in TaskIds : P0RemoteWrite(k)
    \/ \E k \in TaskIds : P0SaveUserThen(k)
    \/ calls < MaxPublishCalls /\ P0SyncUserCall("A", FailureUser)
    \/ \E k \in TaskIds : P0SyncUserReturn(k)
    \/ calls < MaxPublishCalls /\
            \E table \in DOMAIN CollectionInputs : \E items \in CollectionInputs[table] :
                SaveCollection("A", table, items)
    \/ calls < MaxPublishCalls /\ SaveGlobalConfig("A", << "config" >>)
    \/ calls < MaxPublishCalls /\ SendBroadcast("A", "notification")
    \/ calls < MaxPublishCalls /\ P0FetchAllContentCall("A")
    \/ \E k \in TaskIds : \E net \in Reachability : P0FetchAllContentRemote(k, net)
    \/ \E k \in TaskIds : P0FetchAllContentReturn(k)
    \/ \E rows \in TableInputs : RemoteEdit(rows)
    \/ Deliver("B")
    \/ \E k \in TaskIds : Release(k)

PublishSpec == Init /\ [][NextPublish]_vars

\* The two saves of one session: the record of a new user, then the roster's
\* record with new content.
FirstSave == UserProgress(SessionUser, 0, NoRow, 0)
SecondSave == [Entry(allUsers, SessionUser) EXCEPT !.xp = 1]

\* No save is still on its way to the remote table.
AllPushed ==
    \A k \in TaskIds : tasks[k].op = "saveUser" => tasks[k].stage \in {"answered", "done"}

\* The user is new to the remote table, or has a row of an earlier session.
OrderInit ==
    /\ rev \in Revisions
    /\ remoteUsers \in {<< >>, << UserRow(1, SessionUser, 0, EarlierMs) >>}
    /\ tables = NoTables
    /\ AIRTABLE_PAT = ValidPat
    /\ Fresh

\* One context saves its user twice, then synchronises it; the remote answers
\* every request, in any order.
NextOrder ==
    \/ Tick
    \/ calls = 0 /\ SaveUserCall("A", FirstSave)
    \/ calls = 1 /\ SaveUserCall("A", SecondSave)
    \/ \E k \in TaskIds : SaveUserPush(k)
    \/ \E k \in TaskIds : RemoteSyncUser(k) /\ tasks'[k].ok
    \/ \E k \in TaskIds : SaveUserThen(k)
    \/ calls \in 2..(MaxOrderCalls - 1) /\ AllPushed /\
            SyncUserCall("A", Entry(allUsers, SessionUser))
    \/ \E k \in TaskIds : SyncUserReturn(k)
    \/ calls = 0 /\ P0SaveUser("A", FirstSave)
    \/ calls = 1 /\ P0SaveUser("A", SecondSave)
    \/ \E k \in TaskIds : P0RemoteFind(k) /\ tasks'[k].stage = "found"
    \/ \E k \in TaskIds : P0RemoteWrite(k) /\ tasks'[k].ok
    \/ \E k \in TaskIds : P0SaveUserThen(k)
    \/ calls \in 2..(MaxOrderCalls - 1) /\ AllPushed /\
            P0SyncUserCall("A", Entry(allUsers, SessionUser))
    \/ \E k \in TaskIds : P0SyncUserReturn(k)
    \/ \E k \in TaskIds : Release(k)

OrderSpec == OrderInit /\ [][NextOrder]_vars

\* saveUser(user) in context c up to and including the Storage.get of
\* saveUserLocal: the stamp, in part_000 the write of 'progress', and the
\* roster as this context read it.
SaveUserLocalRead(c, user) ==
    /\ CanCall
    /\ LET updatedUser == [user EXCEPT !.lastSyncTimestamp = now]
       IN /\ progress' = IF rev = "part_000" THEN updatedUser ELSE progress
          /\ tasks' = [tasks EXCEPT ![FreeSlot] =
                [NewTask("saveUser", c, "read", updatedUser) EXCEPT
                    !.list = allUsers, !.stamp = now]]
    /\ calls' = calls + 1
    /\ UNCHANGED <<AIRTABLE_PAT, subscriptions, content, rev, now, allUsers, remoteUsers, inbox,
                   handler, invoked, foreign>>

\* The rest of saveUserLocal in the context of task k: the entry is replaced
\* or pushed in the list that was read, the list is stored, the other contexts
\* are signalled; then saveUser goes on to its background call.
SaveUserLocalWrite(k) ==
    /\ Quiet
    /\ tasks[k].op = "saveUser"
    /\ tasks[k].stage = "read"
    /\ allUsers' = SaveUserLocalRoster(tasks[k].list, tasks[k].arg)
    /\ inbox' = NotifySync(inbox, tasks[k].ctx, now)
    /\ tasks' = [tasks EXCEPT ![k] =
            [@ EXCEPT !.stage = IF rev = "services" THEN "local" ELSE "sent",
                      !.list = << >>, !.wrote = 1, !.events = 1,
                      !.returned = (rev = "part_000"), !.asked = (rev = "part_000")]]
    /\ UNCHANGED <<AIRTABLE_PAT, subscriptions, content, rev, now, progress, remoteUsers, calls,
                   handler, invoked, foreign>>

\* Context c has no call of its own in flight.
AtRest(c) == \A k \in TaskIds : tasks[k].ctx # c

\* Two contexts on one LocalStore, each saving its own user when the roster
\* does not list it; their reads and writes of the roster key interleave.
NextRace ==
    \/ calls < MaxRaceCalls /\
            \E c \in Contexts :
                /\ AtRest(c)
                /\ FindIndex(allUsers, Own(c)) = 0
                /\ SaveUserLocalRead(c, UserProgress(Own(c), 0, NoRow, 0))
    \/ \E k \in TaskIds : SaveUserLocalWrite(k)
    \/ \E k \in TaskIds : SaveUserPush(k)
    \/ \E k \in TaskIds : RemoteSyncUser(k)
    \/ \E k \in TaskIds : SaveUserThen(k)
    \/ \E k \in TaskIds : P0RemoteFind(k)
    \/ \E k \in TaskIds : P0RemoteWrite(k)
    \/ \E k \in TaskIds : P0SaveUserThen(k)
    \/ \E k \in TaskIds : Release(k)

RaceSpec == Init /\ [][NextRace]_vars

\* AirtableService.clearCache() in context c.
ClearCache(c) ==
    /\ Quiet
    /\ reqCache[c] # NoCache
    /\ reqCache' = [reqCache EXCEPT ![c] = NoCache]
    /\ UNCHANGED <<AIRTABLE_PAT, subscriptions, rev, now, allUsers, progress, remoteUsers, tasks,
                   calls, inbox, handler, invoked, foreign, store, tables, badData>>

\* The remote client starts with filled content tables.
CacheInit ==
    /\ rev \in Revisions
    /\ remoteUsers = << >>
    /\ tables = FilledTables
    /\ AIRTABLE_PAT = ValidPat
    /\ Fresh

\* One remote client: cached reads of the content tables, lookups and pushes
\* of a user, clearCache, while time passes and the tables are edited.
NextCache ==
    \/ Wait
    \/ calls < MaxCacheCalls /\
            \E op \in {"fetchModules", "fetchMaterials"} : AirtableCall("A", op, NoUser)
    \/ \E k \in TaskIds : \E net \in Reachability : FetchAnswer(k, net)
    \/ calls < MaxCacheCalls /\
            AirtableCall("A", "loadUserProgress", [NoUser EXCEPT !.telegramId = SessionUser])
    \/ \E k \in TaskIds : \E ok \in BOOLEAN : LoadUserProgressAnswer(k, ok)
    \/ calls < MaxCacheCalls /\ AirtableCall("A", "syncUserProgress", FirstSave)
    \/ \E k \in TaskIds : P0RemoteFind(k)
    \/ \E k \in TaskIds : P0RemoteWrite(k)
    \/ \E k \in TaskIds : SyncUserProgressReturn(k)
    \/ \E rows \in {NoTables, FilledTables} : RemoteEdit(rows)
    \/ ClearCache("A")
    \/ \E k \in TaskIds : Release(k)

CacheSpec == CacheInit /\ [][NextCache]_vars

(* ================================= claims =============================== *)
Abs(n) == IF n < 0 THEN -n ELSE n

\* The call in slot k is a settled call of op whose outcome is on display.
Settled(k, op) == tasks[k].stage = "done" /\ tasks[k].op = op

\* A settled syncUser whose remote lookup found a record for the same id.
SyncFound(k) ==
    /\ Settled(k, "syncUser")
    /\ tasks[k].ok
    /\ tasks[k].seen # NoUser

\* C1: when the remote table holds a record for the id and its timestamp
\* exceeds the timestamp of the local record passed in by more than the
\* tolerance, syncUser returns the remote record.
C1_RemoteNewerReturnsRemote ==
    \A k \in TaskIds :
        ( /\ SyncFound(k)
          /\ tasks[k].arg.lastSyncTimestamp # 0
          /\ tasks[k].seen.lastSyncTimestamp - tasks[k].arg.lastSyncTimestamp > Tolerance )
        => tasks[k].ret = tasks[k].seen

C1_Witness ==
    \E k \in TaskIds :
        /\ SyncFound(k)
        /\ tasks[k].arg.lastSyncTimestamp # 0
        /\ tasks[k].seen.lastSyncTimestamp - tasks[k].arg.lastSyncTimestamp > Tolerance
        /\ tasks[k].ret = tasks[k].seen
        /\ tasks[k].ret # tasks[k].arg

\* C2: when the remote and the local timestamp differ by less than the
\* tolerance, syncUser returns the local record it was given and leaves the
\* local roster as it found it (the remote record is not written over it).
C2_WithinToleranceKeepsLocal ==
    \A k \in TaskIds :
        ( /\ SyncFound(k)
          /\ Abs(tasks[k].seen.lastSyncTimestamp - tasks[k].arg.lastSyncTimestamp) < Tolerance )
        => /\ tasks[k].ret = tasks[k].arg
           /\ allUsers = tasks[k].before

C2_Witness ==
    \E k \in TaskIds :
        /\ SyncFound(k)
        /\ Abs(tasks[k].seen.lastSyncTimestamp - tasks[k].arg.lastSyncTimestamp) < Tolerance
        /\ tasks[k].seen # tasks[k].arg
        /\ Entry(allUsers, tasks[k].arg.telegramId) # NoUser
        /\ Entry(allUsers, tasks[k].arg.telegramId) # tasks[k].arg
        /\ tasks[k].ret = tasks[k].arg

\* C3: whenever syncUser resolves in favour of the remote record, the roster
\* entry for that id equals the returned remote record afterwards, whatever
\* the roster held before the call.
C3_RosterHoldsReturnedRemote ==
    \A k \in TaskIds :
        ( /\ SyncFound(k)
          /\ tasks[k].ret = tasks[k].seen
          /\ tasks[k].ret # tasks[k].arg )
        => Entry(allUsers, tasks[k].ret.telegramId) = tasks[k].ret

\* C4: saveUser stamps the record with the current time and writes it to the
\* roster in the step of the call, before any request to the remote table,
\* and it has returned to its caller while that request is still unanswered.
C4_LocalFirstThenBackground ==
    /\ [][\A k \in TaskIds :
            (tasks[k].op # "saveUser" /\ tasks'[k].op = "saveUser")
            => /\ tasks'[k].arg.lastSyncTimestamp = now
               /\ Entry(allUsers', tasks'[k].arg.telegramId) = tasks'[k].arg
               /\ remoteUsers' = remoteUsers]_vars
    /\ [](\A k \in TaskIds :
            (tasks[k].op = "saveUser" /\ tasks[k].stage \in {"sent", "found"})
            => /\ tasks[k].returned
               /\ tasks[k].wrote >= 1
               /\ ~tasks[k].ok)
    /\ [](\A k \in TaskIds :
            (tasks[k].op = "saveUser" /\ tasks[k].stage = "local") => ~tasks[k].asked)

C4_Witness ==
    \E k \in TaskIds :
        /\ tasks[k].op = "saveUser"
        /\ tasks[k].stage = "sent"
        /\ tasks[k].returned
        /\ tasks[k].arg.lastSyncTimestamp = tasks[k].stamp
        /\ Entry(allUsers, tasks[k].arg.telegramId) = tasks[k].arg
        /\ FindRow(remoteUsers, tasks[k].arg.telegramId) = 0

\* C5: when the background propagation of a saveUser fails, nothing is thrown
\* to the caller and the step that takes the failure leaves the LocalStore
\* as the save wrote it: no rollback, no further write, no further signal.
C5_FailureStaysSilent ==
    [][\A k \in TaskIds :
        ( /\ tasks[k].op = "saveUser"
          /\ tasks[k].stage = "answered"
          /\ ~tasks[k].ok
          /\ tasks'[k].stage = "done" )
        => /\ allUsers' = allUsers
           /\ progress' = progress
           /\ inbox' = inbox
           /\ ~tasks'[k].threw
           /\ tasks'[k].returned
           /\ tasks'[k].wrote = 1]_vars

C5_Witness ==
    \E k \in TaskIds :
        /\ Settled(k, "saveUser")
        /\ ~tasks[k].ok
        /\ ~tasks[k].threw
        /\ tasks[k].wrote = 1
        /\ allUsers = tasks[k].before
        /\ Entry(allUsers, tasks[k].arg.telegramId) = tasks[k].arg

\* The step settles the saveUser call in slot k on a successful response.
SaveAnswered(k) ==
    /\ tasks[k].op = "saveUser"
    /\ tasks[k].stage = "answered"
    /\ tasks[k].ok
    /\ tasks'[k].stage = "done"

\* C6: when the background propagation of a saveUser succeeds and the remote
\* row was created by it for a record saved without linkage, the step that
\* takes the response writes the linkage into the roster and publishes a
\* second sync signal; when the response carries the linkage the saved record
\* already had, that step writes nothing and publishes nothing.
C6_LinkagePersistedOnce ==
    [][\A k \in TaskIds :
        SaveAnswered(k) =>
            /\ (tasks[k].made /\ tasks[k].arg.airtableRecordId = NoRow)
                => /\ Entry(allUsers', tasks[k].arg.telegramId).airtableRecordId = tasks[k].row
                   /\ inbox' = NotifySync(inbox, tasks[k].ctx, now)
            /\ (~tasks[k].made /\ tasks[k].user.airtableRecordId = tasks[k].arg.airtableRecordId)
                => /\ allUsers' = allUsers
                   /\ progress' = progress
                   /\ inbox' = inbox]_vars

\* C7: a saveUser of content the LocalStore already holds from an identical
\* earlier save leaves the LocalStore as it was except for the timestamp of
\* the record; in particular the roster gains no second entry for the id.
C7_SaveTwiceSameStore ==
    [][\A k \in TaskIds :
        ( /\ tasks[k].op # "saveUser"
          /\ tasks'[k].op = "saveUser"
          /\ tasks'[k].again )
        => /\ Len(allUsers') = Len(allUsers)
           /\ \A i \in 1..Len(allUsers) : NoTs(allUsers'[i]) = NoTs(allUsers[i])
           /\ rev = "part_000" => NoTs(progress') = NoTs(progress)
           /\ rev = "services" => progress' = progress]_vars

C7_Witness ==
    \E k \in TaskIds :
        /\ tasks[k].op = "saveUser"
        /\ tasks[k].stage \in {"local", "sent"}
        /\ tasks[k].again
        /\ tasks[k].stamp > StartMs
        /\ Len(allUsers) = 1
        /\ allUsers[1] = tasks[k].arg

\* C8: getLeaderboard asks the remote table for the full user list; when
\* that succeeds with a non-empty list it replaces the roster by the list and
\* returns it; when it fails or the list is empty it returns the roster
\* unchanged; it never throws.
C8_LeaderboardRemoteOrLocal ==
    \A k \in TaskIds :
        Settled(k, "getLeaderboard") =>
            /\ tasks[k].asked
            /\ ~tasks[k].threw
            /\ tasks[k].returned
            /\ (tasks[k].ok /\ Len(tasks[k].list) > 0)
                => /\ allUsers = tasks[k].list
                   /\ tasks[k].retList = tasks[k].list
            /\ ~(tasks[k].ok /\ Len(tasks[k].list) > 0)
                => /\ allUsers = tasks[k].before
                   /\ tasks[k].retList = tasks[k].before

\* C9: two contexts have saved two users with different ids and both
\* propagations have reached the remote table; a getLeaderboard called after
\* that returns a list that has an entry for each of the two ids.
C9_BothUsersListed ==
    \A k \in TaskIds :
        (Settled(k, "getLeaderboard") /\ tasks[k].fresh)
        => \A id \in Users : FindIndex(tasks[k].retList, id) # 0

\* A sync signal is waiting at the channel of context c.
SyncPending(c) == \E i \in 1..Len(inbox[c]) : inbox[c][i].type = "SYNC_UPDATE"

\* C10: a saveUser in context A queues one sync signal at every other context
\* and none at A; a subscriber is called back only for a message of type
\* SYNC_UPDATE that another context posted; a subscribed context that
\* dispatches such a message calls its subscriber back; and every sync signal
\* queued at a context is dispatched.
C10_SignalReachesOthersOnly ==
    /\ [][\A k \in TaskIds :
            (tasks[k].op # "saveUser" /\ tasks'[k].op = "saveUser")
            => \A d \in Contexts :
                inbox'[d] = IF d = tasks'[k].ctx THEN inbox[d]
                            ELSE Append(inbox[d], SyncMsg(tasks'[k].ctx, now))]_vars
    /\ [][\A c \in Contexts :
            invoked'[c] # invoked[c]
            => /\ invoked'[c] = invoked[c] + 1
               /\ handler[c]
               /\ inbox[c] # << >>
               /\ Head(inbox[c]).type = "SYNC_UPDATE"
               /\ Head(inbox[c]).from # c]_vars
    /\ [][\A c \in Contexts :
            ( /\ handler[c]
              /\ inbox[c] # << >>
              /\ inbox'[c] = Tail(inbox[c])
              /\ Head(inbox[c]).type = "SYNC_UPDATE" )
            => invoked'[c] = invoked[c] + 1]_vars
    /\ \A c \in Contexts : SyncPending(c) ~> ~SyncPending(c)

C10_Witness ==
    /\ handler["A"]
    /\ handler["B"]
    /\ invoked["B"] >= 1
    /\ invoked["A"] = 0
    /\ inbox["A"] = << >>
    /\ inbox["B"] = << >>
    /\ foreign >= 1

\* The tiers below the remote one for a key, as the settled call read them.
SnapshotOf(k, key) == tasks[k].snapshot[key]

DefaultOf(key) ==
    CASE key = "courseModules" -> COURSE_MODULES
      [] key = "materials" -> MOCK_MATERIALS
      [] key = "streams" -> MOCK_STREAMS

ReturnedOf(k, key) ==
    CASE key = "courseModules" -> tasks[k].retContent.modules
      [] key = "materials" -> tasks[k].retContent.materials
      [] key = "streams" -> tasks[k].retContent.streams

\* C11: when the remote gave no module rows while a local snapshot exists,
\* fetchAllContent returns the local snapshot; and no collection comes back
\* empty while its local snapshot or its built-in default set is non-empty.
C11_FallbackNeverEmpty ==
    \A k \in TaskIds : Settled(k, "fetchAllContent") =>
        /\ (Len(tasks[k].fetched.modules) = 0 /\ SnapshotOf(k, "courseModules").present)
                => tasks[k].retContent.modules = SnapshotOf(k, "courseModules").items
        /\ \A key \in ContentKeys :
                (Len(SnapshotOf(k, key).items) > 0 \/ Len(DefaultOf(key)) > 0)
                    => Len(ReturnedOf(k, key)) > 0

\* Nothing in the LocalStore, nothing in the request cache and no request of
\* the settled fetchAllContent answered.
Outage(k) ==
    /\ Settled(k, "fetchAllContent")
    /\ \A key \in ContentKeys : ~SnapshotOf(k, key).present
    /\ rev = "part_000" => (tasks[k].hits = {} /\ \A e \in Endpoints : ~tasks[k].net[e])

\* C12: with no local cache and the remote unreachable, fetchAllContent returns
\* exactly the built-in default modules, materials and streams, and loading the
\* user gives the absent result, not an error.
C12_OutageGivesDefaults ==
    \A k \in TaskIds :
        /\ Outage(k) =>
                tasks[k].retContent = Content(COURSE_MODULES, MOCK_MATERIALS, MOCK_STREAMS)
        /\ (Settled(k, "loadUserProgress") /\ ~tasks[k].ok) =>
                (~tasks[k].threw /\ tasks[k].returned /\ tasks[k].ret = NoUser)

C12_Witness ==
    \E k \in TaskIds :
        /\ rev = "part_000"
        /\ Outage(k)
        /\ tables = FilledTables
        /\ tasks[k].retContent.modules = COURSE_MODULES

\* A fetchModules call that settled on answered requests with well-formed rows.
Assembled(k) ==
    /\ Settled(k, "fetchModules")
    /\ tasks[k].hits = {}
    /\ \A e \in EndpointsOf("fetchModules") : tasks[k].net[e]
    /\ \A l \in 1..Len(tables.Lessons) : tables.Lessons[l].list

\* Lesson row l names module row id m in its Module field.
Links(l, m) == \E j \in 1..Len(tables.Lessons[l].Module) : tables.Lessons[l].Module[j] = m

\* The members of a set of row positions, in row order.
RECURSIVE InOrder(_)
InOrder(S) ==
    IF S = {} THEN << >>
    ELSE LET first == CHOOSE x \in S : \A y \in S : x <= y
         IN << first >> \o InOrder(S \ {first})

\* The lessons of the rows linking to module row id m, in lesson-row order.
LinkedLessons(m) ==
    LET rows == InOrder({l \in 1..Len(tables.Lessons) : Links(l, m)})
    IN [i \in 1..Len(rows) |-> tables.Lessons[rows[i]].id]

\* The module row an assembled module was built from.
RowOfModule(module) ==
    CHOOSE r \in 1..Len(tables.Modules) : tables.Modules[r].id = module.id

\* Every lesson of the assembled modules is one of a row linking to the module
\* or, when no row links to the module, one the module row lists in its
\* "Lessons 2" link field.
OnlyLinkedOrListedLessons(k) ==
    \A i \in 1..Len(tasks[k].retItems) :
        LET module == tasks[k].retItems[i]
            row == tables.Modules[RowOfModule(module)]
        IN \A j \in 1..Len(module.lessons) :
                \/ \E l \in 1..Len(tables.Lessons) :
                        tables.Lessons[l].id = module.lessons[j] /\ Links(l, module.id)
                \/ /\ LinkedLessons(module.id) = << >>
                   /\ \E n \in 1..Len(row.Lessons2) : row.Lessons2[n] = module.lessons[j]

\* The lessons linking to an assembled module are its lessons, in row order.
BucketsInRowOrder(k) ==
    \A i \in 1..Len(tasks[k].retItems) :
        LET module == tasks[k].retItems[i]
        IN LinkedLessons(module.id) # << >> => module.lessons = LinkedLessons(module.id)

\* C13: each lesson is in the bucket of every module row it links to, in
\* lesson-row order (L1 linked to M1, L2 to M1 and M2: M1.lessons = [L1, L2],
\* M2.lessons = [L2]), and a module's assembled lessons never include a lesson
\* that is not linked to it, through the lesson row's link field or, for a
\* module no lesson row links to, through the module row's own link field.
C13_LinkedOrListedLessons ==
    \A k \in TaskIds : Assembled(k) => (BucketsInRowOrder(k) /\ OnlyLinkedOrListedLessons(k))

\* L1 linked to M1, L2 linked to M1 and M2: M1.lessons = [L1, L2], M2.lessons = [L2].
C13_Witness ==
    \E k \in TaskIds :
        /\ Assembled(k)
        /\ Len(tables.Lessons) = 2
        /\ tables.Lessons[1].Module = << "recM1" >>
        /\ tables.Lessons[2].Module = << "recM1", "recM2" >>
        /\ tasks[k].retItems = << Module("recM1", "T1", << "recL1", "recL2" >>),
                                  Module("recM2", "T2", << "recL2" >>) >>

\* Module row r has at least one lesson: a lesson row links to it, or its
\* "Lessons 2" field lists a lesson row there is.
HasLessons(r) ==
    \/ LinkedLessons(tables.Modules[r].id) # << >>
    \/ \E n \in 1..Len(tables.Modules[r].Lessons2) : \E l \in 1..Len(tables.Lessons) :
            tables.Lessons[l].id = tables.Modules[r].Lessons2[n]

\* Module row r is among the modules the settled call returned.
Kept(k, r) ==
    \E i \in 1..Len(tasks[k].retItems) : tasks[k].retItems[i].id = tables.Modules[r].id

\* C14: fetchModules keeps every module row with at least one lesson; of the
\* zero-lesson rows it keeps the first of each title and drops one whose title
\* repeats that of an earlier zero-lesson row.
C14_ModulesWithLessonsKept ==
    \A k \in TaskIds : Assembled(k) =>
        \A r \in 1..Len(tables.Modules) :
            /\ HasLessons(r) => Kept(k, r)
            /\ ~HasLessons(r) =>
                    (Kept(k, r) <=>
                        ~\E q \in 1..(r - 1) :
                            /\ ~HasLessons(q)
                            /\ TitleOf(tables.Modules[q]) = TitleOf(tables.Modules[r]))

\* The settled read operation was refused a request it had to make.
Refused(k) ==
    \E e \in EndpointsOf(tasks[k].op) : e \notin tasks[k].hits /\ ~tasks[k].net[e]

BackendOps == {"syncUser", "saveUser", "fetchAllContent", "getLeaderboard"}

\* C15: a failed request makes fetchModules, fetchLessons, fetchMaterials and
\* fetchStreams return [], syncUserProgress false and loadUserProgress null; no
\* exception escapes them, nor syncUser, saveUser, fetchAllContent or
\* getLeaderboard.
C15_FailuresBecomeEmptyResults ==
    \A k \in TaskIds :
        /\ ~tasks[k].threw
        /\ (tasks[k].stage = "done" /\ tasks[k].op \in FetchOps /\ Refused(k)) =>
                (tasks[k].returned /\ tasks[k].retItems = << >>)
        /\ (Settled(k, "loadUserProgress") /\ ~tasks[k].ok) =>
                (tasks[k].returned /\ tasks[k].ret = NoUser)
        /\ Settled(k, "syncUserProgress") =>
                tasks[k].returned
        /\ (tasks[k].stage = "done" /\ tasks[k].op \in BackendOps) => tasks[k].returned

C15_Witness ==
    \E k \in TaskIds :
        /\ Settled(k, "fetchModules")
        /\ Refused(k)
        /\ tables = FilledTables
        /\ tasks[k].returned
        /\ tasks[k].retItems = << >>

\* The requests of the settled fetchModules were both answered by the network.
Answered(k) ==
    /\ Settled(k, "fetchModules")
    /\ tasks[k].hits = {}
    /\ \A e \in EndpointsOf("fetchModules") : tasks[k].net[e]

\* C16: one malformed row does not empty the fetch it is part of: fetchModules
\* on answered requests still returns modules when there are module rows, also
\* with a lesson row whose Module field is no list, and loadUserProgress still
\* returns the record of a row found, also when its Data blob does not parse.
C16_CorruptRowHandledPerRow ==
    \A k \in TaskIds :
        /\ (Answered(k) /\ tables.Modules # << >>) => tasks[k].retItems # << >>
        /\ (Settled(k, "loadUserProgress") /\ tasks[k].ok
                /\ FindRow(remoteUsers, tasks[k].arg.telegramId) # 0)
                    => tasks[k].ret # NoUser

\* A step of a saveUser call: its start, or a later step of its pending call.
SaveUserStep == \E k \in TaskIds : tasks'[k].op = "saveUser" /\ tasks'[k] # tasks[k]

\* C17: saveUser writes the roster only: no step of it changes the record of
\* the current session ('progress').
C17_SaveUserLeavesSession == [][SaveUserStep => progress' = progress]_vars

\* A syncUser call that settled without the remote tier: its request failed.
SyncedOffline(k) ==
    /\ Settled(k, "syncUser")
    /\ ~tasks[k].ok
    /\ FindIndex(tasks[k].before, tasks[k].arg.telegramId) # 0

\* C18: syncUser without the remote tier returns the xp the roster held for the
\* user and leaves the roster entry's xp as it was.
C18_OfflineSyncFromRoster ==
    \A k \in TaskIds : SyncedOffline(k) =>
        LET id == tasks[k].arg.telegramId
        IN /\ tasks[k].ret.xp = Entry(tasks[k].before, id).xp
           /\ Entry(allUsers, id).xp = Entry(tasks[k].before, id).xp

\* C19: the local roster holds at most one record per external id.
C19_OneRecordPerUser ==
    \A i, j \in 1..Len(allUsers) :
        allUsers[i].telegramId = allUsers[j].telegramId => i = j

\* A step of a saveUser or syncUser call, the arrival of its remote response
\* included.
UserCallStep ==
    \E k \in TaskIds : tasks'[k].op \in {"saveUser", "syncUser"} /\ tasks'[k] # tasks[k]

\* C20: once the roster record of an external id carries a remote-row linkage,
\* no step of saveUser or syncUser changes or removes it.
C20_LinkageStable ==
    [][UserCallStep =>
        \A id \in Users :
            Entry(allUsers, id).airtableRecordId # NoRow =>
                Entry(allUsers', id).airtableRecordId = Entry(allUsers, id).airtableRecordId]_vars

(* ---------------------------------------------------------------- C21 *)
\* The callbacks context c has passed to onSync.
Registered(c) == 1..registered[c]

\* C21: every callback registered through onSync in a context is invoked on
\* each SYNC_UPDATE the context receives, also when several callbacks were
\* registered by successive onSync calls: the dispatch of a SYNC_UPDATE calls
\* each of them once.
C21_EveryCallbackInvoked ==
    [][\A c \in Contexts :
            (Deliver(c) /\ Head(inbox[c]).type = "SYNC_UPDATE")
                => \A i \in Registered(c) : called'[c][i] = called[c][i] + 1]_vars


(* ---------------------------------------------------------------- C22 *)
\* The application's closed sets.  The categories are the values of the lookup
\* object; the homework types and stream statuses hold the defaults of the code.
Categories == {"GENERAL", "SALES", "PSYCHOLOGY", "TACTICS"}
HomeworkTypes == {"TEXT", "PHOTO", "VIDEO", "FILE"}
StreamStatuses == {"UPCOMING", "LIVE", "ENDED"}

\* C22: whatever value the backend holds in an enumeration column, the mapped
\* object carries a member of the application's closed set: a module's
\* category is GENERAL, SALES, PSYCHOLOGY or TACTICS, a lesson's homework type
\* and a stream's status are members of their sets.
C22_EnumerationsClosed ==
    \A k \in TaskIds :
        LET items == tasks[k].retItems
        IN /\ Settled(k, "fetchModules") =>
                \A i \in 1..Len(items) : items[i].category \in Categories
           /\ Settled(k, "fetchLessons") =>
                \A i \in 1..Len(items) : items[i].homeworkType \in HomeworkTypes
           /\ Settled(k, "fetchStreams") =>
                \A i \in 1..Len(items) : items[i].status \in StreamStatuses

(* ---------------------------------------------------------------- C23 *)
\* The endpoints a content read called fetch() for: those it uses, less the
\* ones the request cache served.
ContentOps == FetchOps \cup {"fetchAllContent"}
Requested(t) ==
    (IF t.op = "fetchAllContent" THEN Endpoints ELSE EndpointsOf(t.op)) \ t.hits

\* C23: when the credential is missing, this is detected before any network
\* call: a content read of a build without a token issues no remote request.
C23_NoRequestWithoutCredential ==
    \A k \in TaskIds :
        (/\ tasks[k].op \in ContentOps
         /\ tasks[k].stage \in {"answered", "done"}
         /\ AIRTABLE_PAT = NoPat)
            => Requested(tasks[k]) = {}

(* ---------------------------------------------------------------- C24 *)
\* The remote call of an operation is outstanding: sent and not yet resolved.
Outstanding(k) == tasks[k].stage \in {"sent", "found"}

\* C24: a slow or never-responding remote call only delays the correction of
\* the cache: while its remote call is outstanding, fetchAllContent,
\* getLeaderboard and syncUser have each returned a result to their caller.
C24_ReturnsWhileOutstanding ==
    \A k \in TaskIds :
        (tasks[k].op \in {"fetchAllContent", "getLeaderboard", "syncUser"} /\ Outstanding(k))
            => tasks[k].returned

(* ---------------------------------------------------------------- C25 *)
\* C25: a local record without a lastSyncTimestamp counts as timestamp 0 in
\* the conflict rule: when the remote table holds a record for the id whose
\* timestamp is greater than the tolerance, syncUser returns the remote record.
C25_NoLocalTimestampSelectsRemote ==
    \A k \in TaskIds :
        ( /\ SyncFound(k)
          /\ tasks[k].arg.lastSyncTimestamp = 0
          /\ tasks[k].seen.lastSyncTimestamp > Tolerance )
        => tasks[k].ret = tasks[k].seen

(* ---------------------------------------------------------------- C26 *)
\* The remote call of syncUser task k resolves in this step, having found a
\* record that the local one is newer than by more than the tolerance.
LocalNewer(t) ==
    /\ t.op = "syncUser"
    /\ t.ok
    /\ t.seen # NoUser
    /\ t.arg.lastSyncTimestamp - t.seen.lastSyncTimestamp > Tolerance
RemoteResolves(k) ==
    /\ tasks[k].stage \in {"sent", "found"}
    /\ tasks'[k].stage = "answered"
    /\ LocalNewer(tasks'[k])
\* syncUser task k returns in this step after such a remote call.
ReturnsLocalNewer(k) ==
    /\ tasks[k].stage = "answered"
    /\ tasks'[k].stage = "done"
    /\ LocalNewer(tasks[k])

\* C26: when the local timestamp exceeds the remote record's by more than the
\* tolerance, the remote update carrying the local record is issued, syncUser
\* returns the local record it was given, and the LocalStore entries of that
\* user keep their content.
C26_LocalNewerKeepsLocal ==
    [][\A k \in TaskIds :
            /\ RemoteResolves(k) =>
                    RemoteRecord(remoteUsers', tasks[k].arg.telegramId).xp = tasks[k].arg.xp
            /\ ReturnsLocalNewer(k) =>
                    /\ tasks'[k].ret = tasks[k].arg
                    /\ Entry(allUsers', tasks[k].arg.telegramId) =
                            Entry(allUsers, tasks[k].arg.telegramId)
                    /\ progress' = progress]_vars

(* ---------------------------------------------------------------- C27 *)
\* A settled syncUser whose remote lookup or write failed.
SyncFailed(k) == Settled(k, "syncUser") /\ ~tasks[k].ok

\* C27: when the remote call inside syncUser fails, syncUser does not throw
\* and returns exactly the local record it was given, and the LocalStore entry
\* of that user afterwards equals that record.
C27_FailedSyncKeepsLocal ==
    \A k \in TaskIds :
        SyncFailed(k) =>
            /\ ~tasks[k].threw
            /\ tasks[k].ret = tasks[k].arg
            /\ Entry(allUsers, tasks[k].arg.telegramId) = tasks[k].arg

(* ---------------------------------------------------------------- C28 *)
\* The primary bucket of module row id m: the lessons of the lesson rows that
\* link to m, in lesson-row order.
PrimaryBucket(m) ==
    LET rows == InOrder({l \in 1..Len(tables.Lessons) : Links(l, m)})
    IN [i \in 1..Len(rows) |-> ExternalId(tables.Lessons[rows[i]])]

\* The secondary link field of a module row resolved against the lesson rows:
\* in link order, the ids that are no lesson row left out.
IsLessonRow(x) == \E l \in 1..Len(tables.Lessons) : tables.Lessons[l].id = x
Resolved(row) ==
    LET known == SelectSeq(row.Lessons2, IsLessonRow)
    IN [j \in 1..Len(known) |->
            ExternalId(tables.Lessons[CHOOSE l \in 1..Len(tables.Lessons) :
                                            tables.Lessons[l].id = known[j]])]

Publishes(c) ==
    \E d \in Contexts \ {c} :
        /\ Len(inbox'[d]) > Len(inbox[d])
        /\ inbox'[d][Len(inbox'[d])].type = "SYNC_UPDATE"
        /\ inbox'[d][Len(inbox'[d])].from = c

\* After this step the LocalStore holds what the operation in slot k writes:
\* the list it saves, the content it chose, or the user record it saves (the
\* stamped record at the call, the linked one after the background answer).
HoldsRecord(record) ==
    /\ Entry(allUsers', record.telegramId) = record
    /\ rev = "part_000" => progress' = record
WriteComplete(k) ==
    LET t == tasks'[k]
    IN CASE t.op \in {"saveCollection", "saveGlobalConfig", "sendBroadcast"} ->
                store'[t.saved.key] = Stored(t.saved.value)
         [] t.op = "fetchAllContent" ->
                /\ store'["courseModules"] = Stored(t.retContent.modules)
                /\ store'["materials"] = Stored(t.retContent.materials)
                /\ store'["streams"] = Stored(t.retContent.streams)
         [] t.op = "saveUser" ->
                HoldsRecord(IF tasks[k].op = "saveUser" THEN t.user ELSE t.arg)
         [] t.op = "syncUser" -> HoldsRecord(t.ret)
         [] OTHER -> FALSE

\* C29: every operation that publishes a SyncEvent (saveUser, saveGlobalConfig,
\* saveCollection, sendBroadcast, fetchAllContent) has completed its LocalStore
\* write when it publishes: a step that queues a SYNC_UPDATE of a context is a
\* step of one of its operations, after which the LocalStore holds the write.
C29_WriteBeforePublish ==
    [][\A c \in Contexts :
            Publishes(c) =>
                \E k \in TaskIds :
                    /\ tasks'[k].ctx = c
                    /\ tasks'[k] # tasks[k]
                    /\ WriteComplete(k)]_vars

\* Two operations have published and the other context holds both signals.
C29_Witness ==
    /\ Len(inbox["B"]) = 2
    /\ store["local_notifications"].present
    /\ \E k \in TaskIds : tasks[k].op \in {"saveUser", "fetchAllContent"} /\ tasks[k].events > 0

(* ---------------------------------------------------------------- C30 *)
\* What the remote fetch of the collection kept under a key resolved with.
FetchedOf(k, key) ==
    CASE key = "courseModules" -> tasks[k].fetched.modules
      [] key = "materials" -> tasks[k].fetched.materials
      [] key = "streams" -> tasks[k].fetched.streams

\* C30: fetchAllContent overwrites the snapshot of a collection only when the
\* remote fetch of that collection gave a non-empty list; when the remote gave
\* nothing for every collection, the LocalStore is as the call found it (no
\* default is persisted) and no SyncEvent is published.
C30_OnlyFetchedCollectionsWritten ==
    \A k \in TaskIds :
        Settled(k, "fetchAllContent") =>
            /\ \A key \in ContentKeys :
                    FetchedOf(k, key) = << >> => store[key] = SnapshotOf(k, key)
            /\ tasks[k].fetched = NoContent =>
                    (store = tasks[k].snapshot /\ tasks[k].events = 0)

(* ---------------------------------------------------------------- C31 *)
\* C31: after a fetchAllContent whose remote fetch of a collection gave a
\* non-empty list S, the local snapshot of that collection is exactly S and S
\* is what the call returns; a fetchAllContent whose remote fetch of a
\* collection gave nothing (remote unreachable or empty) returns the snapshot
\* the LocalStore held for that collection and leaves it as it was.
C31_SnapshotReplacedThenServed ==
    \A k \in TaskIds : \A key \in ContentKeys :
        (Settled(k, "fetchAllContent") /\ rev = "part_000") =>
            /\ FetchedOf(k, key) # << >> =>
                    /\ store[key] = Stored(FetchedOf(k, key))
                    /\ ReturnedOf(k, key) = FetchedOf(k, key)
            /\ (FetchedOf(k, key) = << >> /\ SnapshotOf(k, key).present) =>
                    /\ ReturnedOf(k, key) = SnapshotOf(k, key).items
                    /\ store[key] = SnapshotOf(k, key)

\* A second fetchAllContent, with every request failing and no request cache
\* entry alive, returns the modules an earlier fetchAllContent had fetched and
\* stored, while the remote tables have been emptied since.
C31_Witness ==
    \E k \in TaskIds :
        /\ rev = "part_000"
        /\ Settled(k, "fetchAllContent")
        /\ calls = 2
        /\ tasks[k].hits = {}
        /\ \A e \in Endpoints : ~tasks[k].net[e]
        /\ tables = NoTables
        /\ tasks[k].fetched = NoContent
        /\ SnapshotOf(k, "courseModules") = Stored(BuildModules(FilledTables.Modules, FilledTables.Lessons, {}))
        /\ ReturnedOf(k, "courseModules") = BuildModules(FilledTables.Modules, FilledTables.Lessons, {})
        /\ ReturnedOf(k, "courseModules") # COURSE_MODULES

(* ---------------------------------------------------------------- C32 *)
\* The step in which the answer to the background call of saveUser task k is
\* written back to the roster.
LinkageWriteBack(k) ==
    /\ tasks[k].op = "saveUser"
    /\ tasks[k].stage = "answered"
    /\ tasks'[k].stage = "done"
    /\ tasks'[k].wrote > tasks[k].wrote

\* The roster entry of the user of task k no longer is the record that task
\* saved: a later saveUser has replaced it.
SavedSince(k) ==
    /\ Entry(allUsers, tasks[k].arg.telegramId) # NoUser
    /\ Entry(allUsers, tasks[k].arg.telegramId) # tasks[k].arg
    /\ Entry(allUsers, tasks[k].arg.telegramId).lastSyncTimestamp >= tasks[k].stamp

\* C32: when the answer to the background call of saveUser(v1) is written back
\* after a later saveUser(v2) for the same user was written locally, the
\* roster entry keeps v2's content: its lastSyncTimestamp does not decrease
\* and its fields other than the linkage stay as they were.
C32_WriteBackKeepsLaterSave ==
    [][\A k \in TaskIds :
        (LinkageWriteBack(k) /\ SavedSince(k)) =>
            LET id == tasks[k].arg.telegramId
            IN /\ Entry(allUsers', id).lastSyncTimestamp >= Entry(allUsers, id).lastSyncTimestamp
               /\ Entry(allUsers', id).xp = Entry(allUsers, id).xp]_vars

(* ---------------------------------------------------------------- C33 *)
\* The step in which getLeaderboard task k comes back from its await.
LeaderboardApplied(k) ==
    /\ tasks[k].op = "getLeaderboard"
    /\ tasks[k].stage = "answered"
    /\ tasks'[k].stage = "done"

\* A record without its linkage to a remote row.
NoLinkage(user) == [user EXCEPT !.airtableRecordId = NoRow]

\* saveUser task j wrote its record to the roster, the roster still holds it,
\* and the record has not reached the remote table yet.
PendingSave(j) ==
    /\ tasks[j].op = "saveUser"
    /\ tasks[j].stage \in {"local", "sent", "found"}
    /\ Entry(allUsers, tasks[j].arg.telegramId) = tasks[j].arg

\* C33: a record that saveUser wrote to the roster and whose remote
\* propagation has not completed is still in the roster, with the content
\* saved, after a getLeaderboard has applied its remote list.
C33_LeaderboardKeepsPendingSave ==
    [][\A k \in TaskIds : \A j \in TaskIds :
        (LeaderboardApplied(k) /\ PendingSave(j)) =>
            NoLinkage(Entry(allUsers', tasks[j].arg.telegramId)) = NoLinkage(tasks[j].arg)]_vars

(* ---------------------------------------------------------------- C34 *)
\* C34: whatever the interleaving of the pushes of overlapping saveUser calls
\* (each a lookup by external id followed by a create or an update), the
\* remote users table holds at most one row per external id.
C34_OneRowPerExternalId ==
    \A i, j \in 1..Len(remoteUsers) :
        remoteUsers[i].TelegramId = remoteUsers[j].TelegramId => i = j

(* ---------------------------------------------------------------- C35 *)
\* Both saves have been made and both background propagations have completed.
BothPropagated == calls >= 2 /\ AllPushed

\* C35: once saveUser(v1) and then saveUser(v2) have both been propagated, in
\* either completion order, the remote row of the user holds v2's data, and a
\* syncUser called after that returns v2's data.
C35_LastSaveWinsRemotely ==
    /\ BothPropagated =>
            /\ FindRow(remoteUsers, SessionUser) # 0
            /\ remoteUsers[FindRow(remoteUsers, SessionUser)].XP = 1
    /\ \A k \in TaskIds :
            Settled(k, "syncUser") =>
                /\ tasks[k].ret.telegramId = SessionUser
                /\ tasks[k].ret.xp = 1

(* ---------------------------------------------------------------- C36 *)
\* The step in which the push of saveUser task k writes the remote table.
PushWritten(k) ==
    /\ tasks[k].op = "saveUser"
    /\ tasks[k].stage \in {"sent", "found"}
    /\ tasks'[k].stage = "answered"
    /\ tasks'[k].ok
    /\ remoteUsers' # remoteUsers

\* C36: the last-sync timestamp a push stores in the remote row is the
\* lastSyncTimestamp of the record pushed (the stamp saveUser applied), and
\* the record then read from that row carries that same timestamp, so it
\* does not compare as newer than the local record.
C36_PushStoresRecordStamp ==
    [][\A k \in TaskIds :
        PushWritten(k) =>
            /\ remoteUsers'[tasks'[k].row].LastSync = tasks[k].arg.lastSyncTimestamp
            /\ RowToUser(remoteUsers'[tasks'[k].row]).lastSyncTimestamp
                    = tasks[k].arg.lastSyncTimestamp
            /\ ~RemoteIsNewer(RowToUser(remoteUsers'[tasks'[k].row]), tasks[k].arg)]_vars

(* ---------------------------------------------------------------- C37 *)
\* The roster entries that were not in the roster when call k settled.
WrittenBy(k) ==
    {allUsers[i] : i \in {j \in 1..Len(allUsers) :
        \A b \in 1..Len(tasks[k].before) : tasks[k].before[b] # allUsers[j]}}

\* C37: whatever the outcome of the remote call, syncUser returns a record
\* with the external id of its argument, and what it writes to the LocalStore
\* (roster entry or current-user key) is a record with that external id.
C37_SyncUserKeepsExternalId ==
    \A k \in TaskIds :
        Settled(k, "syncUser") =>
            /\ tasks[k].returned
            /\ tasks[k].ret.telegramId = tasks[k].arg.telegramId
            /\ \A u \in WrittenBy(k) : u.telegramId = tasks[k].arg.telegramId
            /\ (rev = "part_000" /\ tasks[k].wrote > 0) =>
                    progress.telegramId = tasks[k].arg.telegramId

(* ---------------------------------------------------------------- C38 *)
\* Both contexts have called saveUser and neither is between its read and
\* its write of the roster.
BothWritten ==
    /\ calls = 2
    /\ \A k \in TaskIds : tasks[k].stage # "read"

\* C38: when two contexts have saved two different users to the same roster,
\* the roster lists both users after the two local writes, however the two
\* read-modify-write sequences on the roster key interleave.
C38_BothSavesInRoster ==
    BothWritten => \A id \in Users : FindIndex(allUsers, id) # 0

(* ---------------------------------------------------------------- C39 *)
\* In this step a cached-mode operation of context c resolves, and its
\* request to endpoint e was sent to the network and answered.
AnsweredByNetwork(c, e) ==
    \E k \in TaskIds :
        /\ tasks[k].op \in FetchOps
        /\ tasks[k].ctx = c
        /\ tasks[k].stage = "sent"
        /\ tasks'[k].stage = "done"
        /\ e \in EndpointsOf(tasks[k].op)
        /\ e \notin tasks'[k].hits
        /\ tasks'[k].net[e]

\* In this step fetchMaterials task k resolves.
MaterialsResolved(k) ==
    /\ tasks[k].op = "fetchMaterials"
    /\ tasks[k].stage = "sent"
    /\ tasks'[k].stage = "done"

\* C39: the request cache holds only responses of successful cached-mode
\* requests: an entry is added or replaced only by a cached-mode request the
\* network answered, with that response and the time of the request (so a
\* failed request, a user lookup or a user write changes no entry); an entry
\* is served without a network call only while it is younger than CACHE_TTL,
\* otherwise the result is what the network gives; clearCache removes every
\* entry.
C39_CacheOnlySuccessfulCachedRequests ==
    [][/\ \A c \in Contexts : \A e \in CacheKeys :
            reqCache'[c][e] # reqCache[c][e] =>
                \/ /\ AnsweredByNetwork(c, e)
                   /\ reqCache'[c][e] = [has |-> TRUE, data |-> tables[e], timestamp |-> now]
                \/ /\ reqCache'[c] = NoCache
                   /\ tasks' = tasks
       /\ \A k \in TaskIds :
            MaterialsResolved(k) =>
                LET entry == reqCache[tasks[k].ctx]["Materials"]
                    served == "Materials" \in tasks'[k].hits
                IN /\ served <=> (entry.has /\ now - entry.timestamp < CACHE_TTL)
                   /\ served =>
                        tasks'[k].retItems = FetchItems(Response(TRUE, entry.data)).value
                   /\ ~served =>
                        tasks'[k].retItems =
                            FetchItems(Response(tasks'[k].net["Materials"],
                                                tables["Materials"])).value]_vars

\* A request for the materials fails after the cached response has outlived
\* CACHE_TTL: nothing is served from the cache and the old entry is still
\* there, untouched.
C39_Witness ==
    \E k \in TaskIds :
        /\ Settled(k, "fetchMaterials")
        /\ tasks[k].hits = {}
        /\ ~tasks[k].net["Materials"]
        /\ tasks[k].retItems = << >>
        /\ reqCache["A"]["Materials"].has
        /\ reqCache["A"]["Materials"].data = FilledTables.Materials
        /\ now - reqCache["A"]["Materials"].timestamp >= CACHE_TTL

====
